---- MODULE Spec2Model ----
(***************************************************************************)
(* Model of the libdragon VI (video interface) driver, src/src/vi.c with   *)
(* the inline functions and register macros of src/include/vi.h.           *)
(*                                                                         *)
(* The driver keeps a mirror (__vi_cfg) of the 14 hardware registers, a    *)
(* mask of pending writes, a mask of "raster" (stabilized) registers, a    *)
(* transaction depth, and two line-interrupt tables (live and shadow).     *)
(* Every C function is an operator from a driver state (a record) to a     *)
(* driver state, so that functions calling functions compose as in the C   *)
(* code; every action applies one of them to the current state.            *)
(***************************************************************************)
EXTENDS Integers, Sequences, FiniteSets, TLC

VARIABLES
    cfg,                   \* __vi_cfg: the register mirror
    hw,                    \* VI_REGISTERS: the hardware registers; hw[VI_V_CURRENT]
                           \* is the live half-line counter
    cfg_pending,           \* set of register indices with a pending write
    cfg_raster,            \* set of register indices rewritten every vblank
    cfg_pending_lineirqs,  \* TRUE if new_line_irqs holds uncommitted edits
    cfg_refcount,          \* number of open write transactions
    pending_blank,         \* TRUE if blanking was requested
    cur_line_irq,          \* index of the armed entry of line_irqs
    interlacing_parms,     \* <<origin offset, yscale delta>> (32-bit words)
    line_irqs,             \* live line-interrupt table
    new_line_irqs,         \* shadow line-interrupt table
    tv_type,               \* get_tv_type(), fixed for the whole run
    fault,                 \* "none", or why the program stopped
    op,                    \* history: the last operation and its arguments
    frame,                 \* history: lines whose callbacks ran since the head
    frame_edited,          \* history: a request or deferred commit hit this frame
    tx_regs,               \* history: registers written in the open transaction
    waiting,               \* where the foreground stands in vi_wait_vblank:
                           \* "none" (not in it), "line0" or "line2" (the
                           \* scanline its polling loop waits for)
    fg,                    \* the foreground call run statement by statement:
                           \* its function, arguments, remaining statements,
                           \* loaded value and interrupt-disable depth
    reqs                   \* history: the requests recorded since the last
                           \* commit of the shadow table, in order

vars == <<cfg, hw, cfg_pending, cfg_raster, cfg_pending_lineirqs, cfg_refcount,
          pending_blank, cur_line_irq, interlacing_parms, line_irqs,
          new_line_irqs, tv_type, fault, op, frame, frame_edited, tx_regs,
          waiting, fg, reqs>>

(***************************************************************************)
(* Bounds of the model.                                                    *)
(***************************************************************************)
\* Deepest nesting of vi_write_begin the model explores.
MaxDepth == 2
\* Most requests recorded between two commits of the shadow table.
MaxRequests == 3
\* Capacity of the line-interrupt tables.  The source sets MAX_LINE_IRQS to
\* 16 (src/src/vi.c:77); the model explores the same code with a smaller table.
MAX_LINE_IRQS == 3

(***************************************************************************)
(* 32-bit words and the C operators on them.  A uint32_t is held as the    *)
(* integer in -2^31 .. 2^31-1 with the same two's-complement bit pattern   *)
(* (0xFFFFFFFF is -1, 0x80000000 is -2^31), so that every word fits the    *)
(* model checker's integers; the operators below wrap as the C ones do.    *)
(***************************************************************************)
RECURSIVE And(_, _)
And(a, b) ==
    IF a = 0 \/ b = 0 THEN 0
    ELSE IF a = -1 THEN b
    ELSE IF b = -1 THEN a
    ELSE (a % 2) * (b % 2) + 2 * And(a \div 2, b \div 2)

Not32(a)  == (-1) - a
Or(a, b)  == a + (b - And(a, b))
Xor(a, b) == (a - And(a, b)) + (b - And(a, b))

Add32(a, b) ==
    IF a >= 0 /\ b >= 0 /\ a > 2147483647 - b
    THEN ((a - 2147483647) - 1) + ((b - 2147483647) - 1)
    ELSE IF a < 0 /\ b < 0 /\ a < ((-2147483647) - 1) - b
    THEN ((a + 2147483647) + 1) + ((b + 2147483647) + 1)
    ELSE a + b
Sub32(a, b) == Add32(a, Add32(Not32(b), 1))

RECURSIVE ShiftL(_, _)
ShiftL(a, n) == IF n = 0 THEN a ELSE ShiftL(Add32(a, a), n - 1)

\* logical shift right of the bit pattern
RECURSIVE ShiftR(_, _)
ShiftR(a, n) ==
    IF n = 0 THEN a
    ELSE IF a >= 0 THEN a \div (2 ^ n)
    ELSE ShiftR(((a \div 2) + 1073741824) + 1073741824, n - 1)

RECURSIVE Mul32(_, _)
Mul32(a, b) ==
    IF b = 0 THEN 0
    ELSE Add32(IF b % 2 = 1 THEN a ELSE 0, Mul32(Add32(a, a), ShiftR(b, 1)))

(***************************************************************************)
(* Register indices and fields (src/include/vi.h).                         *)
(***************************************************************************)
VI_REGISTERS_COUNT == 14
Regs == 0 .. (VI_REGISTERS_COUNT - 1)

VI_CTRL         == 0
VI_ORIGIN       == 1
VI_WIDTH        == 2
VI_V_INTR       == 3
VI_V_CURRENT    == 4
VI_BURST        == 5
VI_V_TOTAL      == 6
VI_H_TOTAL      == 7
VI_H_TOTAL_LEAP == 8
VI_H_VIDEO      == 9
VI_V_VIDEO      == 10
VI_V_BURST      == 11
VI_X_SCALE      == 12
VI_Y_SCALE      == 13

VI_PIXEL_ADVANCE_DEFAULT == 12288
VI_AA_MODE_RESAMPLE      == 512
VI_CTRL_SERRATE          == 64
VI_CTRL_TYPE             == 3
VI_CTRL_TYPE_32_BPP      == 3
VI_CTRL_TYPE_16_BPP      == 2
VI_CTRL_TYPE_BLANK       == 0
VI_V_CURRENT_VBLANK      == 2
FULL_MASK                == -1

VI_V_TOTAL_SET(vsync) == vsync - 1
\* hsync4 is hsync*4 (773.5 -> 3094): (int)(hsync*4-1) & 0xFFF
VI_H_TOTAL_SET(leap_pattern, hsync4) ==
    Or(ShiftL(And(leap_pattern, 31), 16), And(hsync4 - 1, 4095))
VI_H_TOTAL_LEAP_SET(leap_a4, leap_b4) ==
    Or(ShiftL(And(leap_a4 - 1, 4095), 16), And(leap_b4 - 1, 4095))
VI_H_VIDEO_SET(start, end) == Or(ShiftL(And(start, 1023), 16), And(end, 1023))
VI_V_VIDEO_SET(start, end) == Or(ShiftL(And(start, 1023), 16), And(end, 1023))
VI_V_BURST_SET(start, end) == Or(ShiftL(And(start, 1023), 16), And(end, 1023))
VI_BURST_SET(burst_start, vsync_width, burst_width, hsync_width) ==
    Or(Or(ShiftL(And(burst_start, 1023), 20), ShiftL(And(vsync_width, 15), 16)),
       Or(ShiftL(And(burst_width, 255), 8), And(hsync_width, 255)))

(***************************************************************************)
(* vi_presets (src/src/vi.c:32-69).                                        *)
(***************************************************************************)
vi_presets ==
    [ NTSC |->
        [ clock |-> 48681818,
          vi_h_total |-> VI_H_TOTAL_SET(0, 3094),
          vi_h_total_leap |-> VI_H_TOTAL_LEAP_SET(3094, 3094),
          vi_v_total |-> VI_V_TOTAL_SET(526),
          vi_burst |-> VI_BURST_SET(62, 5, 34, 57),
          vi_v_burst |-> VI_V_BURST_SET(14, 516),
          display |-> [x0 |-> 108, y0 |-> 35, width |-> 640, height |-> 480] ],
      PAL |->
        [ clock |-> 49656530,
          vi_h_total |-> VI_H_TOTAL_SET(21, 3178),
          vi_h_total_leap |-> VI_H_TOTAL_LEAP_SET(3184, 3183),
          vi_v_total |-> VI_V_TOTAL_SET(626),
          vi_burst |-> VI_BURST_SET(64, 4, 35, 58),
          vi_v_burst |-> VI_V_BURST_SET(9, 619),
          display |-> [x0 |-> 128, y0 |-> 45, width |-> 640, height |-> 576] ],
      MPAL |->
        [ clock |-> 48628322,
          vi_h_total |-> VI_H_TOTAL_SET(0, 3089),
          vi_h_total_leap |-> VI_H_TOTAL_LEAP_SET(3101, 3101),
          vi_v_total |-> VI_V_TOTAL_SET(526),
          vi_burst |-> VI_BURST_SET(70, 5, 30, 57),
          vi_v_burst |-> VI_V_BURST_SET(14, 516),
          display |-> [x0 |-> 108, y0 |-> 35, width |-> 640, height |-> 480] ] ]

(***************************************************************************)
(* Line-interrupt table entries (line_irqs_t).  A handler is named by a    *)
(* string; "NULL" is the null pointer, "__vblank_interrupt" the built-in   *)
(* entry, anything else a caller's callback.                               *)
(***************************************************************************)
Slots == 0 .. (MAX_LINE_IRQS - 1)
NullEntry == [line |-> 0, handler |-> "NULL"]
EmptyTable == [i \in Slots |-> NullEntry]

(***************************************************************************)
(* The hardware.  A store to a register is latched, except VI_V_CURRENT:   *)
(* that register is the live half-line counter (a store to it only         *)
(* acknowledges the interrupt).  The VI raises no interrupt while the      *)
(* type field of the hardware VI_CTRL is blank.                            *)
(***************************************************************************)
HwStore(h, idx, value) ==
    IF idx = VI_V_CURRENT THEN h ELSE [h EXCEPT ![idx] = value]

vi_is_active(h) == And(h[VI_CTRL], VI_CTRL_TYPE) # VI_CTRL_TYPE_BLANK

\* The scan position is outside the active display lines of VI_V_VIDEO.
InVblankWindow(h) ==
    LET y0 == ShiftR(h[VI_V_VIDEO], 16)
        y1 == And(h[VI_V_VIDEO], 65535)
    IN  ~(y0 <= h[VI_V_CURRENT] /\ h[VI_V_CURRENT] < y1)

(***************************************************************************)
(* The driver state as a record, so that the C functions compose.          *)
(* vblank_ran and called are bookkeeping of the current call: whether      *)
(* __vblank_interrupt ran in it, and the table entry whose handler it      *)
(* invoked.                                                                *)
(***************************************************************************)
State ==
    [ cfg |-> cfg, hw |-> hw, cfg_pending |-> cfg_pending,
      cfg_raster |-> cfg_raster, cfg_pending_lineirqs |-> cfg_pending_lineirqs,
      cfg_refcount |-> cfg_refcount, pending_blank |-> pending_blank,
      cur_line_irq |-> cur_line_irq, interlacing_parms |-> interlacing_parms,
      line_irqs |-> line_irqs, new_line_irqs |-> new_line_irqs,
      tv_type |-> tv_type, fault |-> fault,
      vblank_ran |-> FALSE, called |-> NullEntry ]

vi_read(s, reg) == s.cfg[reg]

(***************************************************************************)
(* __vblank_interrupt (src/src/vi.c:150-238).  ub is the word a build      *)
(* produces for the shift by a negative count at line 209.                 *)
(***************************************************************************)
interlacing_recalc(s, ub) ==
    LET Y_SCALE  == vi_read(s, VI_Y_SCALE)
        yoffset0 == And(ShiftR(Y_SCALE, 16), 1023)
        yscale   == And(Y_SCALE, 65535)
        yoffset1 == yoffset0 + ShiftR(yscale, 1)
        over     == yoffset1 > 1023
        num_lines == ShiftR(yoffset1, 10)
        bpp_shift == And(vi_read(s, VI_CTRL), VI_CTRL_TYPE) - 1
        origin_offset ==
            IF ~over THEN 0
            ELSE IF bpp_shift < 0 THEN ub
            ELSE ShiftL(Mul32(vi_read(s, VI_WIDTH), num_lines), bpp_shift)
        yoffset  == IF over THEN And(yoffset1, 1023) ELSE yoffset1
        new_yscale == Or(yscale, ShiftL(yoffset, 16))
    IN  <<origin_offset, Sub32(new_yscale, Y_SCALE)>>

\* A variant of writeregs that rewrites the stabilized registers only.
writeregs_raster(s) == s.cfg_raster

\* A variant of writeregs that writes the pending registers only.
writeregs_pending(s) ==
    IF s.cfg_pending # {} /\ s.cfg_refcount = 0 THEN s.cfg_pending ELSE {}

\* The registers one run of __vblank_interrupt writes (lines 154-169).
writeregs(s) ==
    IF s.cfg_pending # {} /\ s.cfg_refcount = 0
    THEN s.cfg_raster \cup s.cfg_pending
    ELSE s.cfg_raster

\* A variant of __vblank_interrupt that makes the field correction through
\* the mirror: it stores the corrected ORIGIN and Y_SCALE in their slots too.
__vblank_interrupt_mirror(s, ub) ==
    LET flush     == s.cfg_pending # {} /\ s.cfg_refcount = 0
        pending1  == IF flush THEN {} ELSE s.cfg_pending
        hw1 == [idx \in Regs |->
                  IF idx \in writeregs(s) THEN HwStore(s.hw, idx, s.cfg[idx])[idx]
                  ELSE s.hw[idx]]
        hw2 == IF s.pending_blank THEN HwStore(hw1, VI_H_VIDEO, 0) ELSE hw1
        ctrl    == vi_read(s, VI_CTRL)
        serrate == And(ctrl, VI_CTRL_SERRATE) # 0
        field   == s.hw[VI_V_CURRENT] % 2
        parms   == IF serrate /\ writeregs(s) \cap {VI_Y_SCALE, VI_WIDTH, VI_CTRL} # {}
                   THEN interlacing_recalc(s, ub)
                   ELSE s.interlacing_parms
        origin  == IF field = 0 THEN Add32(vi_read(s, VI_ORIGIN), parms[1])
                   ELSE vi_read(s, VI_ORIGIN)
        yscale  == IF field = 0 THEN Add32(vi_read(s, VI_Y_SCALE), parms[2])
                   ELSE vi_read(s, VI_Y_SCALE)
        hw3 == HwStore(HwStore(hw2, VI_ORIGIN, origin), VI_Y_SCALE, yscale)
        hw4 == IF s.tv_type = "MPAL"
               THEN HwStore(hw3, VI_V_BURST,
                        Xor(hw3[VI_V_BURST],
                            Xor(VI_V_BURST_SET(11, 514), VI_V_BURST_SET(14, 516))))
               ELSE hw3
    IN  [s EXCEPT !.cfg_pending = pending1,
                  !.pending_blank = FALSE,
                  !.interlacing_parms = parms,
                  !.hw = IF serrate THEN hw4 ELSE hw2,
                  !.cfg = IF serrate
                          THEN [@ EXCEPT ![VI_ORIGIN] = origin,
                                         ![VI_Y_SCALE] = yscale]
                          ELSE @,
                  !.vblank_ran = TRUE]

__vblank_interrupt(s, ub) ==
    LET flush     == s.cfg_pending # {} /\ s.cfg_refcount = 0
        pending1  == IF flush THEN {} ELSE s.cfg_pending
        hw1 == [idx \in Regs |->
                  IF idx \in writeregs(s) THEN HwStore(s.hw, idx, s.cfg[idx])[idx]
                  ELSE s.hw[idx]]
        hw2 == IF s.pending_blank THEN HwStore(hw1, VI_H_VIDEO, 0) ELSE hw1
        ctrl    == vi_read(s, VI_CTRL)
        serrate == And(ctrl, VI_CTRL_SERRATE) # 0
        field   == s.hw[VI_V_CURRENT] % 2
        parms   == IF serrate /\ writeregs(s) \cap {VI_Y_SCALE, VI_WIDTH, VI_CTRL} # {}
                   THEN interlacing_recalc(s, ub)
                   ELSE s.interlacing_parms
        origin  == IF field = 0 THEN Add32(vi_read(s, VI_ORIGIN), parms[1])
                   ELSE vi_read(s, VI_ORIGIN)
        yscale  == IF field = 0 THEN Add32(vi_read(s, VI_Y_SCALE), parms[2])
                   ELSE vi_read(s, VI_Y_SCALE)
        hw3 == HwStore(HwStore(hw2, VI_ORIGIN, origin), VI_Y_SCALE, yscale)
        hw4 == IF s.tv_type = "MPAL"
               THEN HwStore(hw3, VI_V_BURST,
                        Xor(hw3[VI_V_BURST],
                            Xor(VI_V_BURST_SET(11, 514), VI_V_BURST_SET(14, 516))))
               ELSE hw3
    IN  [s EXCEPT !.cfg_pending = pending1,
                  !.pending_blank = FALSE,
                  !.interlacing_parms = parms,
                  !.hw = IF serrate THEN hw4 ELSE hw2,
                  !.vblank_ran = TRUE]

(***************************************************************************)
(* Transactions and register writes (src/src/vi.c:260-303).                *)
(* An assertion that fails stops the program: fault records it and every   *)
(* later call of the same operation is skipped.                            *)
(***************************************************************************)
vi_write_begin(s) ==
    IF s.fault # "none" THEN s
    ELSE [s EXCEPT !.cfg_refcount = @ + 1]

\* A variant of vi_write_maybe_flush that leaves every change pending.
vi_write_maybe_flush_never(s, ub) == s

\* __vi_validate_config only prints warnings: it changes no state.
vi_write_maybe_flush(s, ub) ==
    IF s.fault # "none" THEN s
    ELSE IF s.cfg_refcount > 0 THEN s
    ELSE IF And(s.hw[VI_CTRL], VI_CTRL_TYPE) = VI_CTRL_TYPE_BLANK
         THEN __vblank_interrupt(s, ub)
         ELSE s

\* A variant of vi_write_end without the assertion of line 284.
vi_write_end_unchecked(s, ub) ==
    IF s.fault # "none" THEN s
    ELSE vi_write_maybe_flush([s EXCEPT !.cfg_refcount = @ - 1], ub)

vi_write_end(s, ub) ==
    IF s.fault # "none" THEN s
    ELSE IF ~(s.cfg_refcount > 0)
         THEN [s EXCEPT !.fault = "vi_write_end without matching begin"]
         ELSE vi_write_maybe_flush([s EXCEPT !.cfg_refcount = @ - 1], ub)

\* A variant of vi_write_idx_masked that stores value over the whole slot.
vi_write_idx_masked_whole(s, reg_idx, wmask, value, ub) ==
    IF s.fault # "none" THEN s
    ELSE vi_write_maybe_flush(
             [s EXCEPT !.cfg[reg_idx] = value,
                       !.cfg_pending = @ \cup {reg_idx}], ub)

vi_write_idx_masked(s, reg_idx, wmask, value, ub) ==
    IF s.fault # "none" THEN s
    ELSE IF ~(reg_idx >= 0 /\ reg_idx < VI_REGISTERS_COUNT)
         THEN [s EXCEPT !.fault = "assert reg_idx"]
    ELSE IF And(value, Not32(wmask)) # 0
         THEN [s EXCEPT !.fault = "assert value"]
    ELSE vi_write_maybe_flush(
             [s EXCEPT !.cfg[reg_idx] = Or(And(@, Not32(wmask)), value),
                       !.cfg_pending = @ \cup {reg_idx}], ub)

vi_write_masked(s, reg, wmask, value, ub) ==
    vi_write_idx_masked(s, reg, wmask, value, ub)

vi_write(s, reg, value, ub) == vi_write_masked(s, reg, FULL_MASK, value, ub)

vi_stabilize(s, reg, enable) ==
    IF s.fault # "none" THEN s
    ELSE IF enable THEN [s EXCEPT !.cfg_raster = @ \cup {reg}]
    ELSE [s EXCEPT !.cfg_raster = @ \ {reg}]

\* A variant of vi_blank that blanks through the mirror: it writes 0 to the
\* H_VIDEO slot.
vi_blank_mirror(s, set_blank, ub) ==
    IF s.fault # "none" THEN s
    ELSE IF set_blank THEN vi_write(s, VI_H_VIDEO, 0, ub)
    ELSE vi_write(s, VI_H_VIDEO, vi_read(s, VI_H_VIDEO), ub)

vi_blank(s, set_blank, ub) ==
    IF s.fault # "none" THEN s
    ELSE IF set_blank THEN [s EXCEPT !.pending_blank = TRUE]
    ELSE vi_write(s, VI_H_VIDEO, vi_read(s, VI_H_VIDEO), ub)

(***************************************************************************)
(* vi_wait_vblank (src/src/vi.c:588-605) outside the kernel: the test of   *)
(* the type field, then two polling loops on vi_get_scanline.  A position  *)
(* is "none" (returned), "line0" (first loop) or "line2" (second loop).    *)
(***************************************************************************)
\* vi_get_scanline (src/include/vi.h:602-606): VI_V_CURRENT without bit 0.
vi_get_scanline(h) == h[VI_V_CURRENT] - (h[VI_V_CURRENT] % 2)

\* The position after the test of lines 590-592.
vi_wait_vblank_enter(s) ==
    IF And(vi_read(s, VI_CTRL), VI_CTRL_TYPE) = VI_CTRL_TYPE_BLANK
    THEN "none"
    ELSE "line0"

\* The position after one more read of the scanline in the loops of lines
\* 602-603.
vi_wait_vblank_poll(pos, h) ==
    IF pos = "line0"
    THEN IF vi_get_scanline(h) = VI_V_CURRENT_VBLANK - 2 THEN "line2" ELSE "line0"
    ELSE IF vi_get_scanline(h) = VI_V_CURRENT_VBLANK THEN "none" ELSE "line2"

(***************************************************************************)
(* vi_set_line_interrupt (src/src/vi.c:640-688).  A non-null handler       *)
(* schedules, a null handler cancels; both edit the shadow table only.     *)
(***************************************************************************)
\* A variant of shadow_snapshot that never copies the live table.
shadow_snapshot_stale(s) == s.new_line_irqs

\* The shadow table after lines 653-657: the first request since a commit
\* copies the live table over it.
shadow_snapshot(s) ==
    IF ~s.cfg_pending_lineirqs THEN s.line_irqs ELSE s.new_line_irqs

\* A variant of remove_entry that clears slot i and moves nothing.
remove_entry_clear(table, i) == [table EXCEPT ![i] = NullEntry]

\* The removal loop of lines 675-680: the entries after slot i move down by
\* one and the last slot becomes a sentinel.
remove_entry(table, i) ==
    [j \in Slots |->
        IF j < i THEN table[j]
        ELSE IF j < MAX_LINE_IRQS - 1 THEN table[j + 1]
        ELSE NullEntry]

vi_set_line_interrupt(s, line0, handler) ==
    IF s.fault # "none" THEN s
    ELSE
    LET line == Or(line0, 1)
        new0 == shadow_snapshot(s)
        s0   == [s EXCEPT !.cfg_pending_lineirqs = TRUE, !.new_line_irqs = new0]
        \* first slot that is free or holds a later line
        ins  == {i \in Slots : new0[i].line = 0 \/ new0[i].line > line}
        hit  == {i \in Slots : new0[i].line = line}
    IN  IF handler # "NULL"
        THEN IF ins = {}
             THEN [s0 EXCEPT !.fault = "Too many line interrupts"]
             ELSE LET i == CHOOSE k \in ins : \A m \in ins : k <= m
                  IN  [s0 EXCEPT !.new_line_irqs =
                         [j \in Slots |->
                            IF j < i THEN new0[j]
                            ELSE IF j = i THEN [line |-> line, handler |-> handler]
                            ELSE new0[j - 1]]]
        ELSE IF hit = {}
             THEN [s0 EXCEPT !.fault = "Line interrupt not found"]
             ELSE LET i == CHOOSE k \in hit : \A m \in hit : k <= m
                  IN  [s0 EXCEPT !.new_line_irqs = remove_entry(new0, i)]

(***************************************************************************)
(* __vi_interrupt (src/src/vi.c:240-258).  oob is the word read at         *)
(* line_irqs[MAX_LINE_IRQS].line when the cursor steps past the last slot  *)
(* of a table that holds no sentinel: a read outside the array.            *)
(***************************************************************************)
call_handler(s, entry, ub) ==
    IF entry.handler = "NULL" THEN [s EXCEPT !.fault = "call of a null handler"]
    ELSE IF entry.handler = "__vblank_interrupt" THEN __vblank_interrupt(s, ub)
    ELSE s

__vi_interrupt(s, oob, ub) ==
    LET commit == s.cfg_pending_lineirqs /\ s.cfg_refcount = 0
        live   == IF commit THEN s.new_line_irqs ELSE s.line_irqs
        entry  == live[s.cur_line_irq]
        next   == s.cur_line_irq + 1
        nextline == IF next \in Slots THEN live[next].line ELSE oob
        cur1   == IF nextline = 0 THEN 0 ELSE next
        intr   == IF nextline = 0 THEN live[0].line ELSE nextline
        s1 == [s EXCEPT !.line_irqs = live,
                        !.cfg_pending_lineirqs = IF commit THEN FALSE ELSE @,
                        !.cur_line_irq = cur1,
                        !.hw = HwStore(@, VI_V_INTR, intr),
                        !.called = entry]
        s2 == call_handler(s1, entry, ub)
    IN  IF cur1 \in Slots \/ s2.fault # "none" THEN s2
        ELSE [s2 EXCEPT !.fault = "cur_line_irq outside line_irqs"]

(***************************************************************************)
(* Functions that only call other functions are sequences of calls, run    *)
(* one after the other on the driver state.                                *)
(***************************************************************************)
\* Then(s, F) is F(s) with s evaluated once: the ";" of the C code.
Then(s, F(_)) == CHOOSE r \in {F(x) : x \in {s}} : TRUE

Call(s, c, ub) ==
    CASE c[1] = "vi_write_begin"  -> vi_write_begin(s)
      [] c[1] = "vi_write_end"    -> vi_write_end(s, ub)
      [] c[1] = "vi_write_masked" -> vi_write_masked(s, c[2], c[3], c[4], ub)
      [] c[1] = "vi_write"        -> vi_write(s, c[2], c[3], ub)

RECURSIVE Run(_, _, _)
Run(s, calls, ub) ==
    IF calls = <<>> THEN s
    ELSE Then(Call(s, Head(calls), ub), LAMBDA x : Run(x, Tail(calls), ub))

__set_output(x0, y0, x1, y1) ==
    << <<"vi_write_begin">>,
       <<"vi_write", VI_H_VIDEO, VI_H_VIDEO_SET(x0, x1)>>,
       <<"vi_write", VI_V_VIDEO, VI_V_VIDEO_SET(y0, y1)>>,
       <<"vi_write_end">> >>

(***************************************************************************)
(* vi_init (src/src/vi.c:690-740), from the hardware state boot left by    *)
(* whatever ran before.                                                    *)
(***************************************************************************)
vi_init(boot, tv, ub) ==
    LET preset == vi_presets[tv]
        s0 == [ cfg |-> [i \in Regs |-> 0], hw |-> boot, cfg_pending |-> {},
                cfg_raster |-> {}, cfg_pending_lineirqs |-> FALSE,
                cfg_refcount |-> 0, pending_blank |-> FALSE,
                cur_line_irq |-> 0, interlacing_parms |-> <<0, 0>>,
                line_irqs |-> EmptyTable, new_line_irqs |-> EmptyTable,
                tv_type |-> tv, fault |-> "none",
                vblank_ran |-> FALSE, called |-> NullEntry ]
        ctrl == Or(VI_PIXEL_ADVANCE_DEFAULT, VI_AA_MODE_RESAMPLE)
        writes ==
            << <<"vi_write_begin">>,
               <<"vi_write", VI_H_TOTAL, preset.vi_h_total>>,
               <<"vi_write", VI_H_TOTAL_LEAP, preset.vi_h_total_leap>>,
               <<"vi_write", VI_V_TOTAL, preset.vi_v_total>>,
               <<"vi_write", VI_BURST, preset.vi_burst>>,
               <<"vi_write", VI_V_BURST, preset.vi_v_burst>> >>
            \o __set_output(preset.display.x0, preset.display.y0,
                            preset.display.x0 + preset.display.width,
                            preset.display.y0 + preset.display.height)
            \o << <<"vi_write", VI_CTRL, ctrl>> >>
        \* all registers are marked pending before the transaction is closed
        s11 == Then(Run(s0, writes, ub), LAMBDA x :
                 [vi_write_end([x EXCEPT !.cfg_pending = Regs], ub)
                    EXCEPT !.line_irqs =
                      [EmptyTable EXCEPT ![0] =
                         [line |-> VI_V_CURRENT_VBLANK,
                          handler |-> "__vblank_interrupt"]]])
    IN  \* set_VI_interrupt(1, VI_V_CURRENT_VBLANK) programs the trigger line
        [s11 EXCEPT !.hw = HwStore(@, VI_V_INTR, VI_V_CURRENT_VBLANK)]

\* A variant of vi_init_guarded without the test of inited.
vi_init_unguarded(s, inited, ub) == vi_init(s.hw, s.tv_type, ub)

\* A call of vi_init with its static flag inited (lines 692-694).
vi_init_guarded(s, inited, ub) ==
    IF inited THEN s ELSE vi_init(s.hw, s.tv_type, ub)

(***************************************************************************)
(* vi_set_origin (src/src/vi.c:322-331).  buffer is the physical address   *)
(* of the framebuffer.                                                     *)
(***************************************************************************)
\* A variant of vi_set_origin that opens its transaction before it checks
\* the buffer and the bit depth.
vi_set_origin_late(s, buffer, width, bpp, ub) ==
    IF s.fault # "none" THEN s
    ELSE IF buffer % 8 # 0
         THEN [vi_write_begin(s) EXCEPT !.fault = "Invalid VI buffer alignment"]
    ELSE IF ~(bpp = 16 \/ bpp = 32)
         THEN [vi_write_begin(s) EXCEPT !.fault = "Invalid VI buffer bpp"]
    ELSE Run(s,
             << <<"vi_write_begin">>,
                <<"vi_write", VI_ORIGIN, buffer>>,
                <<"vi_write", VI_WIDTH, width>>,
                <<"vi_write_masked", VI_CTRL, VI_CTRL_TYPE,
                  IF bpp = 16 THEN VI_CTRL_TYPE_16_BPP ELSE VI_CTRL_TYPE_32_BPP>>,
                <<"vi_write_end">> >>, ub)

vi_set_origin(s, buffer, width, bpp, ub) ==
    IF s.fault # "none" THEN s
    ELSE IF buffer % 8 # 0
         THEN [s EXCEPT !.fault = "Invalid VI buffer alignment"]
    ELSE IF ~(bpp = 16 \/ bpp = 32)
         THEN [s EXCEPT !.fault = "Invalid VI buffer bpp"]
    ELSE Run(s,
             << <<"vi_write_begin">>,
                <<"vi_write", VI_ORIGIN, buffer>>,
                <<"vi_write", VI_WIDTH, width>>,
                <<"vi_write_masked", VI_CTRL, VI_CTRL_TYPE,
                  IF bpp = 16 THEN VI_CTRL_TYPE_16_BPP ELSE VI_CTRL_TYPE_32_BPP>>,
                <<"vi_write_end">> >>, ub)

\* vi_set_interlaced (src/src/vi.c:384-392).
vi_set_interlaced(s, interlaced, ub) ==
    Run(s,
        << <<"vi_write_begin">>,
           <<"vi_write_masked", VI_CTRL, VI_CTRL_SERRATE,
             IF interlaced THEN VI_CTRL_SERRATE ELSE 0>>,
           <<"vi_write_masked", VI_V_TOTAL, 1, IF interlaced THEN 0 ELSE 1>>,
           <<"vi_write_end">> >>, ub)

(***************************************************************************)
(* The output window (src/src/vi.c:305-320, 436-566).  A rectangle is the   *)
(* tuple <<x0, y0, x1, y1>> of C ints.                                      *)
(***************************************************************************)
\* Conversion to int16_t, the type of the fields of vi_borders_t.
Int16(v) == ((v + 32768) % 65536) - 32768

__get_output(s) ==
    LET h_video == vi_read(s, VI_H_VIDEO)
        v_video == vi_read(s, VI_V_VIDEO)
    IN  << ShiftR(h_video, 16), ShiftR(v_video, 16),
           And(h_video, 65535), And(v_video, 65535) >>

vi_get_output(s) == __get_output(s)

vi_get_output_bounds(s) ==
    LET H_TOTAL == vi_read(s, VI_H_TOTAL)
        V_TOTAL == vi_read(s, VI_V_TOTAL)
        BURST   == vi_read(s, VI_BURST)
        burst_start  == And(ShiftR(BURST, 20), 1023)
        vsync_height == And(ShiftR(BURST, 16), 15)
        burst_width  == And(ShiftR(BURST, 8), 255)
        htotal == (And(H_TOTAL, 4095) + 1) \div 4
        vtotal == And(V_TOTAL, 1023) + 1
    IN  << burst_start + burst_width, vsync_height, htotal, vtotal - 1 >>

\* A variant of output_clip without the test for a rectangle out of bounds.
output_clip_always(r, b) ==
    LET xa == IF r[1] < b[1] THEN <<b[1], r[3] + (b[1] - r[1])>> ELSE <<r[1], r[3]>>
        xb == IF xa[2] > b[3] THEN <<xa[1] - (xa[2] - b[3]), b[3]>> ELSE xa
        ya == IF r[2] < b[2] THEN <<b[2], r[4] + (b[2] - r[2])>> ELSE <<r[2], r[4]>>
        yb == IF ya[2] > b[4] THEN <<ya[1] - (ya[2] - b[4]), b[4]>> ELSE ya
    IN  <<xb[1], yb[1], xb[2], yb[2]>>

\* The rectangle vi_set_output programs for the request r under the bounds b
\* (lines 474-496).
output_clip(r, b) ==
    IF r[1] > b[3] \/ r[3] < b[1] \/ r[2] > b[4] \/ r[4] < b[2]
    THEN <<0, 0, 0, 0>>
    ELSE LET xa == IF r[1] < b[1] THEN <<b[1], r[3] + (b[1] - r[1])>>
                   ELSE <<r[1], r[3]>>
             xb == IF xa[2] > b[3] THEN <<xa[1] - (xa[2] - b[3]), b[3]>> ELSE xa
             ya == IF r[2] < b[2] THEN <<b[2], r[4] + (b[2] - r[2])>>
                   ELSE <<r[2], r[4]>>
             yb == IF ya[2] > b[4] THEN <<ya[1] - (ya[2] - b[4]), b[4]>> ELSE ya
         IN  <<xb[1], yb[1], xb[2], yb[2]>>

vi_set_output(s, x0, y0, x1, y1, ub) ==
    IF s.fault # "none" THEN s
    ELSE LET c == output_clip(<<x0, y0, x1, y1>>, vi_get_output_bounds(s))
         IN  Run(s, __set_output(c[1], c[2], c[3], c[4]), ub)

\* A variant of vi_set_borders that moves the right and bottom edges outwards.
vi_set_borders_outwards(s, b, ub) ==
    LET d == vi_presets[s.tv_type].display
    IN  vi_set_output(s, d.x0 + b.left, d.y0 + b.up,
                      d.x0 + d.width + b.right, d.y0 + d.height + b.down, ub)

vi_set_borders(s, b, ub) ==
    LET d == vi_presets[s.tv_type].display
    IN  vi_set_output(s, d.x0 + b.left, d.y0 + b.up,
                      (d.x0 + d.width) - b.right, (d.y0 + d.height) - b.down, ub)

vi_get_borders(s) ==
    LET d == vi_presets[s.tv_type].display
        o == __get_output(s)
    IN  [ left  |-> Int16(o[1] - d.x0),
          right |-> Int16(-(o[3] - (d.x0 + d.width))),
          up    |-> Int16(o[2] - d.y0),
          down  |-> Int16(-(o[4] - (d.y0 + d.height))) ]

\* vi_move_output (lines 555-566): the body moves the window by its own
\* width and height and never reads the arguments x and y.
vi_move_output(s, x, y, ub) ==
    LET o  == __get_output(s)
        dx == o[3] - o[1]
        dy == o[4] - o[2]
    IN  vi_write_end(
            vi_set_output(vi_write_begin(s),
                          o[1] + dx, o[2] + dy, o[3] + dx, o[4] + dy, ub), ub)

(***************************************************************************)
(* vi_show and the scale factors (src/src/vi.c:333-382).  A surface is the  *)
(* record [buffer, width, height, stride, bpp]: the physical address of its *)
(* pixels, its size in pixels, its stride in bytes and the bit depth of its *)
(* format; NoSurface is the null pointer.                                   *)
(***************************************************************************)
NoSurface == [buffer |-> 0, width |-> 0, height |-> 0, stride |-> 0, bpp |-> 0]

\* VI_X_SCALE_SET / VI_Y_SCALE_SET (src/include/vi.h:238-242) with a float
\* "from", converted to uint32_t: the quotient truncated.  ub is the word a
\* build produces for the conversion of a division by zero.
VI_X_SCALE_SET(from, to, ub) ==
    IF to = 0 THEN ub ELSE (1024 * from + to \div 2) \div to
VI_Y_SCALE_SET(from, to, ub) ==
    IF to = 0 THEN ub ELSE (1024 * from + to \div 2) \div to

vi_set_xscale(s, fb_width, ub) ==
    LET o == __get_output(s)
    IN  vi_write_masked(s, VI_X_SCALE, 4095,
                        VI_X_SCALE_SET(fb_width, o[3] - o[1], ub), ub)

vi_set_yscale(s, fb_height, ub) ==
    LET o == __get_output(s)
    IN  vi_write_masked(s, VI_Y_SCALE, 4095,
                        VI_Y_SCALE_SET(fb_height, (o[4] - o[2]) \div 2, ub), ub)

\* A variant of vi_show_null that stores the blank type over the whole
\* control slot.
vi_show_null_whole(s, ub) ==
    Run(s, << <<"vi_write_begin">>,
              <<"vi_write", VI_ORIGIN, 0>>,
              <<"vi_write", VI_WIDTH, 0>>,
              <<"vi_write", VI_CTRL, VI_CTRL_TYPE_BLANK>>,
              <<"vi_write_end">> >>, ub)

\* vi_show with a null surface (lines 363-370).
vi_show_null(s, ub) ==
    Run(s, << <<"vi_write_begin">>,
              <<"vi_write", VI_ORIGIN, 0>>,
              <<"vi_write", VI_WIDTH, 0>>,
              <<"vi_write_masked", VI_CTRL, VI_CTRL_TYPE, VI_CTRL_TYPE_BLANK>>,
              <<"vi_write_end">> >>, ub)

\* The assertions of vi_show on a surface (lines 372-376): "none" or the one
\* that fails.
vi_show_assert(fb) ==
    IF ~(fb.bpp = 16 \/ fb.bpp = 32) THEN "assert fmt"
    ELSE IF (fb.width * fb.bpp) \div 8 # fb.stride THEN "assert stride"
    ELSE IF fb.buffer % 8 # 0 THEN "assert buffer alignment"
    ELSE IF fb.stride % 8 # 0 THEN "assert stride alignment"
    ELSE "none"

\* The state after the first n of the calls vi_show makes for a surface
\* (lines 377-381): vi_write_begin, vi_set_origin, vi_set_xscale,
\* vi_set_yscale, vi_write_end.
vi_show_upto(s, fb, n, ub) ==
    LET s1 == vi_write_begin(s)
        s2 == vi_set_origin(s1, fb.buffer, fb.width, fb.bpp, ub)
        s3 == vi_set_xscale(s2, fb.width, ub)
        s4 == vi_set_yscale(s3, fb.height, ub)
    IN  CASE n = 0 -> s
          [] n = 1 -> s1
          [] n = 2 -> s2
          [] n = 3 -> s3
          [] n = 4 -> s4
          [] OTHER -> vi_write_end(s4, ub)

vi_show(s, fb, ub) ==
    IF s.fault # "none" THEN s
    ELSE IF fb = NoSurface THEN vi_show_null(s, ub)
    ELSE IF vi_show_assert(fb) # "none"
         THEN [s EXCEPT !.fault = vi_show_assert(fb)]
    ELSE vi_show_upto(s, fb, 5, ub)

(***************************************************************************)
(* eia608_start and eia608_stop (src/src/eia608.c:119-175, 274-298): a     *)
(* line-interrupt request and a change of the output window inside one     *)
(* transaction.  __eia608_interrupt saves the hardware registers it        *)
(* overwrites and restores them before it returns (eia608.c:215-248), so   *)
(* call_handler leaves the state alone for it.                             *)
(***************************************************************************)
EIA608_IRQ_SAFEMARGIN == 4

\* The fields of sigparms the two functions use (lines 132-141, 163-168).
recalc_parms(s) ==
    LET interlaced   == And(vi_read(s, VI_CTRL), VI_CTRL_SERRATE) # 0
        vsync_height == And(ShiftR(vi_read(s, VI_BURST), 16), 15)
        v_line       == 21 - vsync_height
        v_halfline   == (v_line * 2 + 1) + (IF interlaced THEN 0 ELSE 1)
        out          == vi_get_output(s)
    IN  [ v_line_start |-> v_halfline,
          v_line_end |-> v_halfline + (IF interlaced THEN 2 ELSE 1),
          out_x0 |-> out[1], out_y0 |-> out[2],
          out_x1 |-> out[3], out_y1 |-> out[4] ]

eia608_start(s, ub) ==
    IF s.fault # "none" THEN s
    ELSE
    LET p == recalc_parms(s)
    IN  IF p.v_line_end # p.out_y0
        THEN [s EXCEPT !.fault = "EIA-608: unimplemented support for borders"]
        ELSE
        Then(vi_write_begin(s), LAMBDA a :
        Then(vi_set_line_interrupt(a, p.v_line_start - EIA608_IRQ_SAFEMARGIN,
                                   "__eia608_interrupt"), LAMBDA b :
        Then(vi_set_output(b, p.out_x0, p.v_line_start, p.out_x1, p.out_y1, ub),
             LAMBDA c : vi_write_end(c, ub))))

\* sigparms is as eia608_start left it: the window it read had
\* out_y0 = v_line_end (its assertion), and it changed neither the columns
\* nor the last line of the window.
eia608_stop(s, ub) ==
    IF s.fault # "none" THEN s
    ELSE
    LET p == recalc_parms(s)
    IN  Then(vi_write_begin(s), LAMBDA a :
        Then(vi_set_output(a, p.out_x0, p.v_line_end, p.out_x1, p.out_y1, ub),
             LAMBDA b :
        Then(vi_set_line_interrupt(b, p.v_line_start - EIA608_IRQ_SAFEMARGIN,
                                   "NULL"), LAMBDA c : vi_write_end(c, ub))))

(***************************************************************************)
(* The foreground functions statement by statement, for the interleaving   *)
(* with the VI interrupt: each function is the sequence of its accesses to *)
(* the state it shares with the handler.  A statement is <<"disable">> /   *)
(* <<"enable">> (disable_interrupts / enable_interrupts, which nest),      *)
(* <<"load", v>> and <<"store", v>> (the two halves of a read-modify-write *)
(* of v), <<"assert">>, <<"test">> (the early return of                    *)
(* vi_write_maybe_flush) or <<"apply">> (its call of __vblank_interrupt).  *)
(***************************************************************************)
Idle == [fn |-> "none", args |-> <<>>, steps |-> <<>>, tmp |-> 0, irq |-> 0]

\* vi_write_maybe_flush (src/src/vi.c:265-280).
vi_write_maybe_flush_steps ==
    << <<"test">>, <<"disable">>, <<"apply">>, <<"enable">> >>

\* vi_write_begin (lines 260-263): cfg_refcount++.
vi_write_begin_steps ==
    << <<"load", "cfg_refcount">>, <<"store", "cfg_refcount">> >>

\* vi_write_end (lines 282-287): the assertion, --cfg_refcount, the flush.
vi_write_end_steps ==
    << <<"assert">>, <<"load", "cfg_refcount">>, <<"store", "cfg_refcount">> >>
    \o vi_write_maybe_flush_steps

\* A variant of vi_write_idx_masked_steps that leaves the interrupt enabled.
vi_write_idx_masked_steps_open ==
    << <<"assert">>,
       <<"load", "cfg">>, <<"store", "cfg">>,
       <<"load", "cfg_pending">>, <<"store", "cfg_pending">> >>
    \o vi_write_maybe_flush_steps

\* vi_write_idx_masked (lines 289-298).
vi_write_idx_masked_steps ==
    << <<"assert">>, <<"disable">>,
       <<"load", "cfg">>, <<"store", "cfg">>,
       <<"load", "cfg_pending">>, <<"store", "cfg_pending">> >>
    \o vi_write_maybe_flush_steps
    \o << <<"enable">> >>

\* vi_stabilize (lines 607-614): cfg_raster |= bit, or cfg_raster &= ~bit.
vi_stabilize_steps ==
    << <<"load", "cfg_raster">>, <<"store", "cfg_raster">> >>

\* vi_set_line_interrupt (lines 652-687): the whole edit of the shadow table
\* and of its flag, between disable_interrupts and enable_interrupts.
\* A variant of vi_set_line_interrupt_steps that returns with the interrupts
\* still disabled.
vi_set_line_interrupt_steps_masked ==
    << <<"disable">>, <<"load", "new_line_irqs">>, <<"store", "new_line_irqs">> >>

vi_set_line_interrupt_steps ==
    << <<"disable">>, <<"load", "new_line_irqs">>, <<"store", "new_line_irqs">>,
       <<"enable">> >>

Steps(fn) ==
    CASE fn = "vi_write_begin"        -> vi_write_begin_steps
      [] fn = "vi_write_end"          -> vi_write_end_steps
      [] fn = "vi_write_masked"       -> vi_write_idx_masked_steps
      [] fn = "vi_stabilize"          -> vi_stabilize_steps
      [] fn = "vi_set_line_interrupt" -> vi_set_line_interrupt_steps

\* The value a load statement of v reads in the state s, in the call f.
Loaded(s, f, v) ==
    CASE v = "cfg_refcount"  -> s.cfg_refcount
      [] v = "cfg_raster"    -> s.cfg_raster
      [] v = "cfg"           -> s.cfg[f.args[1]]
      [] v = "cfg_pending"   -> s.cfg_pending
      [] v = "new_line_irqs" -> shadow_snapshot(s)

\* The state after the store statement of v in the call f, computed from
\* the value f loaded.
Stored(s, f, v) ==
    CASE v = "cfg_refcount" ->
            [s EXCEPT !.cfg_refcount =
                IF f.fn = "vi_write_begin" THEN f.tmp + 1 ELSE f.tmp - 1]
      [] v = "cfg_raster" ->
            [s EXCEPT !.cfg_raster =
                IF f.args[2] THEN f.tmp \cup {f.args[1]}
                ELSE f.tmp \ {f.args[1]}]
      [] v = "cfg" ->
            [s EXCEPT !.cfg[f.args[1]] =
                Or(And(f.tmp, Not32(f.args[2])), f.args[3])]
      [] v = "cfg_pending" ->
            [s EXCEPT !.cfg_pending = f.tmp \cup {f.args[1]}]
      [] v = "new_line_irqs" ->
            vi_set_line_interrupt(s, f.args[1], f.args[2])

\* The assertion at the head of the call f fails in the state s.
AssertFails(s, f) ==
    CASE f.fn = "vi_write_end" -> ~(s.cfg_refcount > 0)
      [] f.fn = "vi_write_masked" ->
            \/ ~(f.args[1] >= 0 /\ f.args[1] < VI_REGISTERS_COUNT)
            \/ And(f.args[3], Not32(f.args[2])) # 0
      [] OTHER -> FALSE

\* One statement of the call f in the state s: the state and the call after.
Statement(s, f, ub) ==
    LET o    == Head(f.steps)
        rest == Tail(f.steps)
        next == [f EXCEPT !.steps = rest]
    IN  CASE o[1] = "disable" -> [s |-> s, f |-> [next EXCEPT !.irq = @ + 1]]
          [] o[1] = "enable"  -> [s |-> s, f |-> [next EXCEPT !.irq = @ - 1]]
          [] o[1] = "assert"  ->
                IF AssertFails(s, f)
                THEN [s |-> [s EXCEPT !.fault = "assertion of " \o f.fn],
                      f |-> [f EXCEPT !.steps = <<>>]]
                ELSE [s |-> s, f |-> next]
          [] o[1] = "load"    ->
                [s |-> s, f |-> [next EXCEPT !.tmp = Loaded(s, f, o[2])]]
          [] o[1] = "store"   -> [s |-> Stored(s, f, o[2]), f |-> next]
          [] o[1] = "test"    ->
                [s |-> s,
                 f |-> IF s.cfg_refcount > 0
                       THEN [f EXCEPT !.steps = SubSeq(rest, 4, Len(rest))]
                       ELSE next]
          [] o[1] = "apply"   ->
                [s |-> IF And(s.hw[VI_CTRL], VI_CTRL_TYPE) = VI_CTRL_TYPE_BLANK
                       THEN __vblank_interrupt(s, ub) ELSE s,
                 f |-> next]

(***************************************************************************)
(* The public configuration operations, call by call                       *)
(* (src/src/vi.c:300-392, 469-578).  OpSteps(s, fn, args, ub) is the body  *)
(* of fn entered in the state s: what fn reads at its head is read from s, *)
(* and the body is a sequence of                                           *)
(*   <<"call", g, a>>   a call of the function g of Steps,                 *)
(*   <<"enter", g, a>>  a call of another of these operations,             *)
(*   <<"fail", m>>      an assertion of fn that fails with the message m.  *)
(* The statement <<"return", depth, level>> ends the outermost call,       *)
(* entered at the transaction depth and the interrupt-disable level it     *)
(* carries.                                                                *)
(***************************************************************************)
OpSteps(s, fn, args, ub) ==
    CASE fn = "vi_set_origin" ->
            IF args[1] % 8 # 0
            THEN << <<"fail", "Invalid VI buffer alignment">> >>
            ELSE IF ~(args[3] = 16 \/ args[3] = 32)
                 THEN << <<"fail", "Invalid VI buffer bpp">> >>
            ELSE << <<"call", "vi_write_begin", <<>> >>,
                    <<"call", "vi_write_masked", <<VI_ORIGIN, FULL_MASK, args[1]>> >>,
                    <<"call", "vi_write_masked", <<VI_WIDTH, FULL_MASK, args[2]>> >>,
                    <<"call", "vi_write_masked",
                      <<VI_CTRL, VI_CTRL_TYPE,
                        IF args[3] = 16 THEN VI_CTRL_TYPE_16_BPP
                        ELSE VI_CTRL_TYPE_32_BPP>> >>,
                    <<"call", "vi_write_end", <<>> >> >>
      [] fn = "vi_set_xscale" ->
            LET o == __get_output(s)
            IN  << <<"call", "vi_write_masked",
                     <<VI_X_SCALE, 4095,
                       VI_X_SCALE_SET(args[1], o[3] - o[1], ub)>> >> >>
      [] fn = "vi_set_yscale" ->
            LET o == __get_output(s)
            IN  << <<"call", "vi_write_masked",
                     <<VI_Y_SCALE, 4095,
                       VI_Y_SCALE_SET(args[1], (o[4] - o[2]) \div 2, ub)>> >> >>
      [] fn = "vi_show" ->
            IF args[1] = NoSurface
            THEN << <<"call", "vi_write_begin", <<>> >>,
                    <<"call", "vi_write_masked", <<VI_ORIGIN, FULL_MASK, 0>> >>,
                    <<"call", "vi_write_masked", <<VI_WIDTH, FULL_MASK, 0>> >>,
                    <<"call", "vi_write_masked",
                      <<VI_CTRL, VI_CTRL_TYPE, VI_CTRL_TYPE_BLANK>> >>,
                    <<"call", "vi_write_end", <<>> >> >>
            ELSE IF vi_show_assert(args[1]) # "none"
                 THEN << <<"fail", vi_show_assert(args[1])>> >>
            ELSE << <<"call", "vi_write_begin", <<>> >>,
                    <<"enter", "vi_set_origin",
                      <<args[1].buffer, args[1].width, args[1].bpp>> >>,
                    <<"enter", "vi_set_xscale", <<args[1].width>> >>,
                    <<"enter", "vi_set_yscale", <<args[1].height>> >>,
                    <<"call", "vi_write_end", <<>> >> >>
      [] fn = "vi_set_interlaced" ->
            << <<"call", "vi_write_begin", <<>> >>,
               <<"call", "vi_write_masked",
                 <<VI_CTRL, VI_CTRL_SERRATE,
                   IF args[1] THEN VI_CTRL_SERRATE ELSE 0>> >>,
               <<"call", "vi_write_masked",
                 <<VI_V_TOTAL, 1, IF args[1] THEN 0 ELSE 1>> >>,
               <<"call", "vi_write_end", <<>> >> >>
      [] fn = "__set_output" ->
            << <<"call", "vi_write_begin", <<>> >>,
               <<"call", "vi_write_masked",
                 <<VI_H_VIDEO, FULL_MASK, VI_H_VIDEO_SET(args[1], args[3])>> >>,
               <<"call", "vi_write_masked",
                 <<VI_V_VIDEO, FULL_MASK, VI_V_VIDEO_SET(args[2], args[4])>> >>,
               <<"call", "vi_write_end", <<>> >> >>
      [] fn = "vi_set_output" ->
            << <<"enter", "__set_output",
                 output_clip(args, vi_get_output_bounds(s))>> >>
      [] fn = "vi_set_borders" ->
            LET d == vi_presets[s.tv_type].display
                b == args[1]
            IN  << <<"enter", "vi_set_output",
                     <<d.x0 + b.left, d.y0 + b.up,
                       (d.x0 + d.width) - b.right,
                       (d.y0 + d.height) - b.down>> >> >>
      [] fn = "vi_move_output" ->
            LET o  == __get_output(s)
                dx == o[3] - o[1]
                dy == o[4] - o[2]
            IN  << <<"call", "vi_write_begin", <<>> >>,
                   <<"enter", "vi_set_output",
                     <<o[1] + dx, o[2] + dy, o[3] + dx, o[4] + dy>> >>,
                   <<"call", "vi_write_end", <<>> >> >>
      [] fn = "vi_scroll_output" ->
            LET o == __get_output(s)
            IN  << <<"call", "vi_write_begin", <<>> >>,
                   <<"enter", "vi_set_output",
                     <<o[1] + args[1], o[2] + args[2],
                       o[3] + args[1], o[4] + args[2]>> >>,
                   <<"call", "vi_write_end", <<>> >> >>
      [] OTHER -> << <<"call", fn, args>> >>

\* The state and the call after every statement of the call f has run.
RECURSIVE RunSteps(_, _, _)
RunSteps(s, f, ub) ==
    IF f.steps = <<>> THEN [s |-> s, f |-> f]
    ELSE Then(Statement(s, f, ub), LAMBDA x : RunSteps(x.s, x.f, ub))

\* One statement of the operation f in the state s.  A call of a function
\* of Steps runs to its end, through its statements.
OpStatement(s, f, ub) ==
    LET o    == Head(f.steps)
        rest == Tail(f.steps)
    IN  CASE o[1] = "call" ->
                LET r == RunSteps(s, [fn |-> o[2], args |-> o[3],
                                      steps |-> Steps(o[2]), tmp |-> 0,
                                      irq |-> f.irq], ub)
                IN  [s |-> r.s,
                     f |-> IF r.s.fault # "none" THEN [f EXCEPT !.steps = <<>>]
                           ELSE [f EXCEPT !.steps = rest, !.irq = r.f.irq]]
          [] o[1] = "enter" ->
                [s |-> s,
                 f |-> [f EXCEPT !.steps = OpSteps(s, o[2], o[3], ub) \o rest]]
          [] o[1] = "fail" ->
                [s |-> [s EXCEPT !.fault = o[2]],
                 f |-> [f EXCEPT !.steps = <<>>]]
          [] o[1] = "return" -> [s |-> s, f |-> [f EXCEPT !.steps = rest]]

(***************************************************************************)
(* Inputs the model draws from.                                            *)
(***************************************************************************)
\* Results of the shift by -1 at src/src/vi.c:209, which C leaves undefined;
\* it is evaluated only in interlaced mode with a blank type field.
UBWords(s) ==
    IF And(s.cfg[VI_CTRL], VI_CTRL_SERRATE) # 0
       /\ And(s.cfg[VI_CTRL], VI_CTRL_TYPE) = VI_CTRL_TYPE_BLANK
    THEN {0, (-2147483647) - 1}
    ELSE {0}
\* Results of the conversion to uint32_t of a quotient by zero at
\* src/src/vi.c:337 and 344, which C leaves undefined: zero, the largest int,
\* all ones.  The quotient is by zero only when the mirror's output window
\* has no width or fewer than two lines.
InfWords(s) ==
    LET o == __get_output(s)
    IN  IF o[3] - o[1] = 0 \/ (o[4] - o[2]) \div 2 = 0
        THEN {0, 2147483647, -1}
        ELSE {0}
\* Words found past the end of line_irqs, read only when the cursor leaves
\* the last slot.
OobWords(s) ==
    IF s.cur_line_irq + 1 \in Slots THEN {0} ELSE {0, VI_V_CURRENT_VBLANK}
\* Scan positions of the beam: start of vblank, and a line of the picture.
ScanLines == {VI_V_CURRENT_VBLANK, 100}
\* Bit 0 of VI_V_CURRENT is the field.  The driver reads it only when the
\* mirror is interlaced, so the specifications that never request interlaced
\* mode fix it to 0.
AnyField == {0, 1}
NoField == {0}

\* The hardware as boot leaves it: switched off, or still running the
\* 16 bpp mode of a previous program.
BootOff == [i \in Regs |-> 0]
BootOn(tv) ==
    [i \in Regs |->
        IF i = VI_CTRL THEN Or(Or(VI_PIXEL_ADVANCE_DEFAULT, VI_AA_MODE_RESAMPLE),
                               VI_CTRL_TYPE_16_BPP)
        ELSE IF i = VI_V_VIDEO
             THEN VI_V_VIDEO_SET(vi_presets[tv].display.y0,
                      vi_presets[tv].display.y0 + vi_presets[tv].display.height)
        ELSE IF i = VI_V_INTR \/ i = VI_V_CURRENT THEN VI_V_CURRENT_VBLANK
        ELSE 0]

\* Register writes of the register specification: <<register, mask, value>>.
RegWrites ==
    { <<VI_CTRL, VI_CTRL_TYPE, VI_CTRL_TYPE_BLANK>>,
      <<VI_H_VIDEO, FULL_MASK, VI_H_VIDEO_SET(120, 736)>> }
\* Framebuffers shown with vi_set_origin: <<address, width, bpp>>.
Buffers == { <<1048576, 320, 16>>, <<1048576, 320, 32>> }
\* Register writes of the interlaced specification.
InterlaceWrites ==
    { <<VI_CTRL, VI_CTRL_TYPE, VI_CTRL_TYPE_16_BPP>>,
      <<VI_Y_SCALE, FULL_MASK, 3072>> }
\* Lines and callbacks of the line-interrupt specification.
IrqLines == {100, 200}
Handlers == {"cb", "NULL"}
\* Requests of the output specification: horizontal and vertical extents
\* inside the NTSC bounds (96,5)-(773,525), across each edge, beside the
\* bounds and larger than them; borders; start positions.
XSpans == { <<120, 736>>, <<0, 50>>, <<50, 690>>, <<200, 840>>, <<0, 1000>>,
            <<800, 900>> }
YSpans == { <<47, 503>>, <<0, 3>>, <<-10, 470>>, <<100, 580>>, <<0, 600>> }
Border(left, right, up, down) ==
    [left |-> left, right |-> right, up |-> up, down |-> down]
Borders == { Border(0, 0, 0, 0), Border(12, 12, 12, 12), Border(-12, 0, 0, 0),
             Border(-20, 0, 0, 0), Border(0, -30, 12, 0) }
Starts == { <<100, 40>>, <<400, 40>> }
\* Registers the register specification stabilizes.
RasterRegs == {VI_H_VIDEO}
\* Lines of the fair specification: the lowest line a caller can name.
LiveLines == {0}
\* Calls of the statement specification: <<function, arguments>>.
FgCalls ==
    { <<"vi_write_begin", <<>> >>, <<"vi_write_end", <<>> >>,
      <<"vi_write_masked", <<VI_H_VIDEO, FULL_MASK, VI_H_VIDEO_SET(120, 736)>> >>,
      <<"vi_stabilize", <<VI_H_VIDEO, TRUE>> >>,
      <<"vi_stabilize", <<VI_H_VIDEO, FALSE>> >>,
      <<"vi_set_line_interrupt", <<100, "cb">> >> }
\* Scan positions of the wait specification: the last line of a frame, the
\* start of vblank, and a line of the picture.
WaitLines == {0, VI_V_CURRENT_VBLANK, 100}
\* Surfaces of the show specification: 320x240 at 16 bpp and 640x480 at
\* 32 bpp, and the null surface.
Surfaces ==
    { [buffer |-> 1048576, width |-> 320, height |-> 240, stride |-> 640,
       bpp |-> 16],
      [buffer |-> 2097152, width |-> 640, height |-> 480, stride |-> 2560,
       bpp |-> 32],
      NoSurface }
\* Calls of the operations specification: every public configuration
\* operation, with a surface and the null surface, a mode with one field and
\* with two, windows that cross the bounds of NTSC.
OpCalls ==
    { <<"vi_write_masked", <<VI_H_VIDEO, FULL_MASK, VI_H_VIDEO_SET(133, 773)>> >>,
      <<"vi_show", << [buffer |-> 1048576, width |-> 320, height |-> 240,
                       stride |-> 640, bpp |-> 16] >> >>,
      <<"vi_show", <<NoSurface>> >>,
      <<"vi_set_origin", <<1048576, 320, 16>> >>,
      <<"vi_set_interlaced", <<FALSE>> >>,
      <<"vi_set_interlaced", <<TRUE>> >>,
      <<"vi_set_output", <<400, 300, 1040, 780>> >>,
      <<"vi_set_output", <<50, 60, 690, 400>> >>,
      <<"vi_set_borders", <<Border(25, -25, 10, -10)>> >>,
      <<"vi_move_output", <<100, 40>> >>,
      <<"vi_scroll_output", <<400, 300>> >>,
      <<"vi_set_line_interrupt", <<100, "cb">> >> }
\* Requests of the scale specification: a window beside the bounds of NTSC,
\* windows 50 and 200 columns wide.
ScaleXSpans == { <<800, 900>>, <<200, 250>>, <<200, 400>> }
ScaleYSpans == { <<35, 515>> }
\* The surfaces of Surfaces that have pixels.
ValidSurfaces == Surfaces \ {NoSurface}
\* Calls that break a precondition: a register index below and above the
\* register file, value bits outside the mask, a buffer that is not 8-byte
\* aligned, a bit depth of 8.
BadWrites ==
    { <<-1, FULL_MASK, 0>>, <<VI_REGISTERS_COUNT, FULL_MASK, 0>>,
      <<VI_CTRL, VI_CTRL_TYPE, 4>> }
BadBuffers == { <<1048580, 320, 16>>, <<1048576, 320, 8>> }

(***************************************************************************)
(* Actions.  Each applies one C function to the current state; op records  *)
(* which, with its arguments, whether __vblank_interrupt ran in it and     *)
(* which table entry's handler it invoked.                                 *)
(***************************************************************************)
ApplyDriver(r, name, args) ==
    /\ cfg' = r.cfg
    /\ hw' = r.hw
    /\ cfg_pending' = r.cfg_pending
    /\ cfg_raster' = r.cfg_raster
    /\ cfg_pending_lineirqs' = r.cfg_pending_lineirqs
    /\ cfg_refcount' = r.cfg_refcount
    /\ pending_blank' = r.pending_blank
    /\ cur_line_irq' = r.cur_line_irq
    /\ interlacing_parms' = r.interlacing_parms
    /\ line_irqs' = r.line_irqs
    /\ new_line_irqs' = r.new_line_irqs
    /\ tv_type' = r.tv_type
    /\ fault' = r.fault
    /\ op' = [name |-> name, args |-> args,
              vblank |-> r.vblank_ran, called |-> r.called]

\* A call run to its end in one step: the foreground stands where it stood.
Apply(r, name, args) ==
    /\ ApplyDriver(r, name, args)
    /\ waiting' = waiting
    /\ fg' = fg
    /\ reqs' = IF name = "__vi_interrupt" /\ cfg_pending_lineirqs
                  /\ cfg_refcount = 0
               THEN <<>> ELSE reqs

\* The registers written since the outermost vi_write_begin, after a call
\* that leaves the state r and wrote the registers written.
TxRegs(r, written) ==
    tx_regs' = IF r.cfg_refcount = 0 \/ r.fault # "none" THEN {}
               ELSE tx_regs \cup written

InitTv(tvs) ==
    \E boot_on \in BOOLEAN, tv \in tvs :
      \E r \in {vi_init(IF boot_on THEN BootOn(tv) ELSE BootOff, tv, 0)} :
            /\ cfg = r.cfg
            /\ hw = r.hw
            /\ cfg_pending = r.cfg_pending
            /\ cfg_raster = r.cfg_raster
            /\ cfg_pending_lineirqs = r.cfg_pending_lineirqs
            /\ cfg_refcount = r.cfg_refcount
            /\ pending_blank = r.pending_blank
            /\ cur_line_irq = r.cur_line_irq
            /\ interlacing_parms = r.interlacing_parms
            /\ line_irqs = r.line_irqs
            /\ new_line_irqs = r.new_line_irqs
            /\ tv_type = r.tv_type
            /\ fault = r.fault
            /\ op = [name |-> "vi_init", args |-> <<>>,
                     vblank |-> r.vblank_ran, called |-> r.called]
            /\ frame = <<>>
            /\ frame_edited = FALSE
            /\ tx_regs = {}
            /\ waiting = "none"
            /\ fg = Idle
            /\ reqs = <<>>

Init == InitTv({"NTSC"})

\* vi_init is called again: its flag inited is set since the first call.
InitAgain ==
    /\ fault = "none"
    /\ \E ub \in UBWords(State) :
          \E r \in {vi_init_guarded(State, TRUE, ub)} :
              Apply(r, "vi_init", <<>>)
    /\ UNCHANGED <<frame, frame_edited, tx_regs>>

WriteBegin ==
    /\ fault = "none"
    /\ cfg_refcount < MaxDepth
    /\ \E r \in {vi_write_begin(State)} :
          Apply(r, "vi_write_begin", <<>>) /\ TxRegs(r, {})
    /\ UNCHANGED <<frame, frame_edited>>

WriteEnd ==
    /\ fault = "none"
    /\ \E ub \in UBWords(State) :
          \E r \in {vi_write_end(State, ub)} :
              Apply(r, "vi_write_end", <<>>) /\ TxRegs(r, {})
    /\ UNCHANGED <<frame, frame_edited>>

WriteMasked(reg, wmask, value) ==
    /\ fault = "none"
    /\ \E ub \in UBWords(State) :
          \E r \in {vi_write_masked(State, reg, wmask, value, ub)} :
              Apply(r, "vi_write_masked", <<reg, wmask, value>>)
              /\ TxRegs(r, {reg})
    /\ UNCHANGED <<frame, frame_edited>>

SetOrigin(buffer, width, bpp) ==
    /\ fault = "none"
    /\ \E ub \in UBWords(State) :
          \E r \in {vi_set_origin(State, buffer, width, bpp, ub)} :
              Apply(r, "vi_set_origin", <<buffer, width, bpp>>)
              /\ TxRegs(r, {VI_ORIGIN, VI_WIDTH, VI_CTRL})
    /\ UNCHANGED <<frame, frame_edited>>

SetInterlaced(interlaced) ==
    /\ fault = "none"
    /\ \E ub \in UBWords(State) :
          \E r \in {vi_set_interlaced(State, interlaced, ub)} :
              Apply(r, "vi_set_interlaced", <<interlaced>>)
              /\ TxRegs(r, {VI_CTRL, VI_V_TOTAL})
    /\ UNCHANGED <<frame, frame_edited>>

SetOutput(x0, y0, x1, y1) ==
    /\ fault = "none"
    /\ \E ub \in UBWords(State) :
          \E r \in {vi_set_output(State, x0, y0, x1, y1, ub)} :
              Apply(r, "vi_set_output", <<x0, y0, x1, y1>>)
              /\ TxRegs(r, {VI_H_VIDEO, VI_V_VIDEO})
    /\ UNCHANGED <<frame, frame_edited>>

SetBorders(b) ==
    /\ fault = "none"
    /\ \E ub \in UBWords(State) :
          \E r \in {vi_set_borders(State, b, ub)} :
              Apply(r, "vi_set_borders", <<b>>)
              /\ TxRegs(r, {VI_H_VIDEO, VI_V_VIDEO})
    /\ UNCHANGED <<frame, frame_edited>>

MoveOutput(x, y) ==
    /\ fault = "none"
    /\ \E ub \in UBWords(State) :
          \E r \in {vi_move_output(State, x, y, ub)} :
              Apply(r, "vi_move_output", <<x, y>>)
              /\ TxRegs(r, {VI_H_VIDEO, VI_V_VIDEO})
    /\ UNCHANGED <<frame, frame_edited>>

Show(fb) ==
    /\ fault = "none"
    /\ \E ub \in UBWords(State) :
          \E r \in {vi_show(State, fb, ub)} :
              Apply(r, "vi_show", <<fb>>)
              /\ TxRegs(r, IF fb = NoSurface THEN {VI_ORIGIN, VI_WIDTH, VI_CTRL}
                           ELSE {VI_ORIGIN, VI_WIDTH, VI_CTRL, VI_X_SCALE,
                                 VI_Y_SCALE})
    /\ UNCHANGED <<frame, frame_edited>>

\* vi_show of a surface over any output window.
ShowOver(fb) ==
    /\ fault = "none"
    /\ \E ub \in InfWords(State) :
          \E r \in {vi_show(State, fb, ub)} :
              Apply(r, "vi_show", <<fb>>)
              /\ TxRegs(r, {VI_ORIGIN, VI_WIDTH, VI_CTRL, VI_X_SCALE, VI_Y_SCALE})
    /\ UNCHANGED <<frame, frame_edited>>

Eia608Start ==
    /\ fault = "none"
    /\ \E ub \in UBWords(State) :
          \E r \in {eia608_start(State, ub)} :
              Apply(r, "eia608_start", <<>>)
              /\ TxRegs(r, {VI_H_VIDEO, VI_V_VIDEO})
    /\ frame_edited' = (frame_edited \/ cur_line_irq # 0)
    /\ UNCHANGED frame

\* eia608_stop is called after eia608_start: the output window starts at the
\* line of the signal.
Eia608Stop ==
    /\ fault = "none"
    /\ vi_get_output(State)[2] = recalc_parms(State).v_line_start
    /\ \E ub \in UBWords(State) :
          \E r \in {eia608_stop(State, ub)} :
              Apply(r, "eia608_stop", <<>>)
              /\ TxRegs(r, {VI_H_VIDEO, VI_V_VIDEO})
    /\ frame_edited' = (frame_edited \/ cur_line_irq # 0)
    /\ UNCHANGED frame

Stabilize(reg, enable) ==
    /\ fault = "none"
    /\ \E r \in {vi_stabilize(State, reg, enable)} :
          Apply(r, "vi_stabilize", <<reg, enable>>)
    /\ UNCHANGED <<frame, frame_edited, tx_regs>>

Blank(set_blank) ==
    /\ fault = "none"
    /\ \E ub \in UBWords(State) :
          \E r \in {vi_blank(State, set_blank, ub)} :
              Apply(r, "vi_blank", <<set_blank>>)
              /\ TxRegs(r, IF set_blank THEN {} ELSE {VI_H_VIDEO})
    /\ UNCHANGED <<frame, frame_edited>>

SetLineInterrupt(line, handler) ==
    /\ fault = "none"
    /\ \E r \in {vi_set_line_interrupt(State, line, handler)} :
          Apply(r, "vi_set_line_interrupt", <<line, handler>>)
    /\ frame_edited' = (frame_edited \/ cur_line_irq # 0)
    /\ UNCHANGED <<frame, tx_regs>>

\* A schedule or cancel request that is kept in reqs when it returns.
Request(line, handler) ==
    /\ fault = "none"
    /\ Len(reqs) < MaxRequests
    /\ \E r \in {vi_set_line_interrupt(State, line, handler)} :
          /\ ApplyDriver(r, "vi_set_line_interrupt", <<line, handler>>)
          /\ reqs' = IF r.fault = "none" THEN Append(reqs, <<line, handler>>)
                     ELSE reqs
    /\ frame_edited' = (frame_edited \/ cur_line_irq # 0)
    /\ UNCHANGED <<frame, tx_regs, waiting, fg>>

\* The beam moves on (the hardware advances VI_V_CURRENT while it is active).
Scan ==
    /\ fault = "none"
    /\ vi_is_active(hw)
    /\ \E l \in ScanLines :
          /\ l # hw[VI_V_CURRENT]
          /\ hw' = [hw EXCEPT ![VI_V_CURRENT] = l]
    /\ op' = [name |-> "scan", args |-> <<>>, vblank |-> FALSE,
              called |-> NullEntry]
    /\ UNCHANGED <<cfg, cfg_pending, cfg_raster, cfg_pending_lineirqs,
                   cfg_refcount, pending_blank, cur_line_irq, interlacing_parms,
                   line_irqs, new_line_irqs, tv_type, fault, frame, frame_edited,
                   tx_regs, waiting, fg, reqs>>

\* The beam moves to one of lines.
ScanTo(lines) ==
    /\ fault = "none"
    /\ vi_is_active(hw)
    /\ \E l \in lines :
          /\ l # hw[VI_V_CURRENT]
          /\ hw' = [hw EXCEPT ![VI_V_CURRENT] = l]
    /\ op' = [name |-> "scan", args |-> <<>>, vblank |-> FALSE,
              called |-> NullEntry]
    /\ UNCHANGED <<cfg, cfg_pending, cfg_raster, cfg_pending_lineirqs,
                   cfg_refcount, pending_blank, cur_line_irq, interlacing_parms,
                   line_irqs, new_line_irqs, tv_type, fault, frame, frame_edited,
                   tx_regs, waiting, fg, reqs>>

\* The foreground calls vi_wait_vblank and runs it up to its first loop.
WaitVblank ==
    /\ fault = "none"
    /\ waiting = "none"
    /\ waiting' = vi_wait_vblank_enter(State)
    /\ op' = [name |-> "vi_wait_vblank", args |-> <<>>, vblank |-> FALSE,
              called |-> NullEntry]
    /\ UNCHANGED <<cfg, hw, cfg_pending, cfg_raster, cfg_pending_lineirqs,
                   cfg_refcount, pending_blank, cur_line_irq, interlacing_parms,
                   line_irqs, new_line_irqs, tv_type, fault, frame, frame_edited,
                   tx_regs, fg, reqs>>

\* The foreground, inside vi_wait_vblank, reads the scanline it waits for.
WaitPoll ==
    /\ fault = "none"
    /\ waiting # "none"
    /\ waiting' = vi_wait_vblank_poll(waiting, hw)
    /\ waiting' # waiting
    /\ op' = [name |-> "vi_get_scanline", args |-> <<>>, vblank |-> FALSE,
              called |-> NullEntry]
    /\ UNCHANGED <<cfg, hw, cfg_pending, cfg_raster, cfg_pending_lineirqs,
                   cfg_refcount, pending_blank, cur_line_irq, interlacing_parms,
                   line_irqs, new_line_irqs, tv_type, fault, frame, frame_edited,
                   tx_regs, fg, reqs>>

\* The foreground enters a function: its statements are still to run.
FgCall(fn, args) ==
    /\ fault = "none"
    /\ fg.steps = <<>>
    /\ fn = "vi_write_begin" => cfg_refcount < MaxDepth
    /\ fg' = [fg EXCEPT !.fn = fn, !.args = args, !.steps = Steps(fn)]
    /\ op' = [name |-> "call", args |-> <<fn>>, vblank |-> FALSE,
              called |-> NullEntry]
    /\ UNCHANGED <<cfg, hw, cfg_pending, cfg_raster, cfg_pending_lineirqs,
                   cfg_refcount, pending_blank, cur_line_irq, interlacing_parms,
                   line_irqs, new_line_irqs, tv_type, fault, frame, frame_edited,
                   tx_regs, waiting, reqs>>

\* The foreground runs the next statement of the function it is in.
FgStep ==
    /\ fault = "none"
    /\ fg.steps # <<>>
    /\ \E ub \in UBWords(State) :
          \E r \in {Statement(State, fg, ub)} :
              /\ ApplyDriver(r.s, fg.fn, fg.args)
              /\ fg' = r.f
    /\ UNCHANGED <<frame, frame_edited, tx_regs, waiting, reqs>>

\* The foreground calls one of the public configuration operations, the one
\* it called before if it called any.
FgOpCall(fn, args) ==
    /\ fault = "none"
    /\ fg.steps = <<>>
    /\ fg.fn \in {"none", fn}
    /\ fg' = [fg EXCEPT !.fn = fn, !.args = args,
                        !.steps = << <<"enter", fn, args>>,
                                     <<"return", cfg_refcount, fg.irq>> >>]
    /\ op' = [name |-> "call", args |-> <<fn>>, vblank |-> FALSE,
              called |-> NullEntry]
    /\ UNCHANGED <<cfg, hw, cfg_pending, cfg_raster, cfg_pending_lineirqs,
                   cfg_refcount, pending_blank, cur_line_irq, interlacing_parms,
                   line_irqs, new_line_irqs, tv_type, fault, frame, frame_edited,
                   tx_regs, waiting, reqs>>

\* The foreground runs the next statement of the operation it is in.
FgOpStep ==
    /\ fault = "none"
    /\ fg.steps # <<>>
    /\ \E ub \in UBWords(State) :
          \E r \in {OpStatement(State, fg, ub)} :
              /\ ApplyDriver(r.s, fg.fn, fg.args)
              /\ fg' = r.f
    /\ UNCHANGED <<frame, frame_edited, tx_regs, waiting, reqs>>

\* The beam reaches the half-line of VI_V_INTR, in one of the fields, and the
\* VI interrupt is taken: __vi_interrupt runs to its end.
Interrupt(fields) ==
    /\ fault = "none"
    /\ vi_is_active(hw)
    /\ \E field \in fields, oob \in OobWords(State), ub \in UBWords(State) :
          \E r \in {__vi_interrupt(
                       [State EXCEPT !.hw[VI_V_CURRENT] =
                           2 * (hw[VI_V_INTR] \div 2) + field], oob, ub)} :
              /\ Apply(r, "__vi_interrupt", <<>>)
              /\ frame' = IF cur_line_irq = 0 THEN <<r.called.line>>
                          ELSE Append(frame, r.called.line)
              /\ frame_edited' =
                    \/ (cur_line_irq # 0 /\ frame_edited)
                    \/ (cfg_pending_lineirqs /\ cfg_refcount > 0)
    /\ UNCHANGED tx_regs

\* The VI interrupt is taken only while the foreground has it enabled.
InterruptEnabled(fields) ==
    /\ fg.irq = 0
    /\ Interrupt(fields)

(***************************************************************************)
(* The register specification: transactions, masked writes, stabilized     *)
(* registers and the vblank interrupt, with the line-interrupt table left  *)
(* as vi_init built it.                                                    *)
(***************************************************************************)
Next ==
    \/ WriteBegin
    \/ WriteEnd
    \/ \E w \in RegWrites : WriteMasked(w[1], w[2], w[3])
    \/ \E b \in Buffers : SetOrigin(b[1], b[2], b[3])
    \/ \E reg \in RasterRegs, enable \in BOOLEAN : Stabilize(reg, enable)
    \/ Blank(TRUE)
    \/ Interrupt(NoField)
    \/ Scan

Spec == Init /\ [][Next]_vars

(***************************************************************************)
(* The interlaced specification: the vblank interrupt under serrate on an  *)
(* MPAL console, with blank requests.                                      *)
(***************************************************************************)
InitInterlaced == InitTv({"MPAL"})

NextInterlaced ==
    \/ WriteBegin
    \/ WriteEnd
    \/ \E w \in InterlaceWrites : WriteMasked(w[1], w[2], w[3])
    \/ SetInterlaced(TRUE)
    \/ Blank(TRUE)
    \/ Interrupt(AnyField)

SpecInterlaced == InitInterlaced /\ [][NextInterlaced]_vars

(***************************************************************************)
(* The line-interrupt specification: schedule and cancel requests, inside  *)
(* and outside transactions, against the firing of the VI interrupt.       *)
(***************************************************************************)
NextIrq ==
    \/ WriteBegin
    \/ WriteEnd
    \/ WriteMasked(VI_CTRL, VI_CTRL_TYPE, VI_CTRL_TYPE_16_BPP)
    \/ \E line \in IrqLines, handler \in Handlers : SetLineInterrupt(line, handler)
    \/ Interrupt(NoField)

SpecIrq == Init /\ [][NextIrq]_vars

(***************************************************************************)
(* The output specification: the output window set as a rectangle, as      *)
(* borders and by its start position, with the NTSC timing registers.      *)
(***************************************************************************)
NextOutput ==
    \/ \E xs \in XSpans, ys \in YSpans : SetOutput(xs[1], ys[1], xs[2], ys[2])
    \/ \E b \in Borders : SetBorders(b)
    \/ SetBorders(vi_get_borders(State))
    \/ \E p \in Starts : MoveOutput(p[1], p[2])

SpecOutput == Init /\ [][NextOutput]_vars

(***************************************************************************)
(* The show specification: surfaces shown and the display switched off,    *)
(* inside and outside transactions, and calls that break a precondition.   *)
(***************************************************************************)
NextShow ==
    \/ WriteBegin
    \/ WriteEnd
    \/ \E fb \in Surfaces : Show(fb)
    \/ \E w \in BadWrites : WriteMasked(w[1], w[2], w[3])
    \/ \E b \in Buffers \cup BadBuffers : SetOrigin(b[1], b[2], b[3])
    \/ Interrupt(NoField)

SpecShow == Init /\ [][NextShow]_vars

(***************************************************************************)
(* The wait specification: vi_wait_vblank against the beam and the VI      *)
(* interrupt, with the VI switched on and off inside and outside           *)
(* transactions.  The foreground makes no other call while it is inside    *)
(* vi_wait_vblank.                                                         *)
(***************************************************************************)
NextWait ==
    \/ waiting = "none" /\ WriteBegin
    \/ waiting = "none" /\ WriteEnd
    \/ waiting = "none" /\ \E b \in Buffers : SetOrigin(b[1], b[2], b[3])
    \/ waiting = "none" /\ Show(NoSurface)
    \/ WaitVblank
    \/ WaitPoll
    \/ ScanTo(WaitLines)
    \/ Interrupt(NoField)

SpecWait == Init /\ [][NextWait]_vars

(***************************************************************************)
(* The fair specification: register writes and schedule / cancel requests  *)
(* against the VI interrupt, where every open transaction is closed in the *)
(* end and every entry's interrupt keeps firing with no transaction open   *)
(* as long as the VI is active and the program runs.                       *)
(***************************************************************************)
NextLive ==
    \/ WriteBegin
    \/ cfg_refcount > 0 /\ WriteEnd
    \/ WriteMasked(VI_CTRL, VI_CTRL_TYPE, VI_CTRL_TYPE_16_BPP)
    \/ \E line \in LiveLines, handler \in Handlers :
          SetLineInterrupt(line, handler)
    \/ Interrupt(NoField)

SpecLive ==
    /\ Init
    /\ [][NextLive]_vars
    /\ WF_vars(cfg_refcount > 1 /\ WriteEnd)
    /\ SF_vars(cfg_refcount = 1 /\ WriteEnd)
    /\ \A i \in Slots :
          SF_vars(cfg_refcount = 0 /\ cur_line_irq = i /\ Interrupt(NoField))

(***************************************************************************)
(* The statement specification: the foreground functions run statement by  *)
(* statement, the VI interrupt taken between any two statements that leave *)
(* it enabled.                                                             *)
(***************************************************************************)
NextAtomic ==
    \/ \E c \in FgCalls : FgCall(c[1], c[2])
    \/ FgStep
    \/ InterruptEnabled(NoField)

SpecAtomic == Init /\ [][NextAtomic]_vars

(***************************************************************************)
(* The operations specification: a foreground that calls one of the public *)
(* configuration operations again and again, inside and outside            *)
(* transactions.  The operation runs call by call, and the VI interrupt is *)
(* taken between any two calls that leave it enabled.                      *)
(***************************************************************************)
NextOps ==
    \/ fg.steps = <<>> /\ WriteBegin
    \/ fg.steps = <<>> /\ WriteEnd
    \/ \E c \in OpCalls : FgOpCall(c[1], c[2])
    \/ FgOpStep
    \/ InterruptEnabled(AnyField)

SpecOps == Init /\ [][NextOps]_vars

(***************************************************************************)
(* The scale specification: surfaces shown over output windows of several  *)
(* widths and over the zero-area window, inside and outside transactions.  *)
(***************************************************************************)
NextScale ==
    \/ WriteBegin
    \/ WriteEnd
    \/ \E xs \in ScaleXSpans, ys \in ScaleYSpans :
          SetOutput(xs[1], ys[1], xs[2], ys[2])
    \/ \E fb \in ValidSurfaces : ShowOver(fb)
    \/ Interrupt(NoField)

SpecScale == Init /\ [][NextScale]_vars

(***************************************************************************)
(* The commit specification: recorded schedule and cancel requests, inside *)
(* and outside transactions, against the firing of the VI interrupt.       *)
(***************************************************************************)
NextCommit ==
    \/ WriteBegin
    \/ WriteEnd
    \/ WriteMasked(VI_CTRL, VI_CTRL_TYPE, VI_CTRL_TYPE_16_BPP)
    \/ \E line \in IrqLines, handler \in Handlers : Request(line, handler)
    \/ Interrupt(NoField)

SpecCommit == Init /\ [][NextCommit]_vars

(***************************************************************************)
(* The closed-caption specification: eia608_start and eia608_stop, inside  *)
(* and outside an outer transaction, against the firing of the VI          *)
(* interrupt.                                                              *)
(***************************************************************************)
NextEia ==
    \/ WriteBegin
    \/ WriteEnd
    \/ WriteMasked(VI_CTRL, VI_CTRL_TYPE, VI_CTRL_TYPE_16_BPP)
    \/ Eia608Start
    \/ Eia608Stop
    \/ Interrupt(NoField)

SpecEia == Init /\ [][NextEia]_vars

(***************************************************************************)
(* The blank specification: blank and unblank requests, inside and outside *)
(* transactions, against the vblank interrupt.                             *)
(***************************************************************************)
NextBlank ==
    \/ WriteBegin
    \/ WriteEnd
    \/ WriteMasked(VI_CTRL, VI_CTRL_TYPE, VI_CTRL_TYPE_16_BPP)
    \/ \E set_blank \in BOOLEAN : Blank(set_blank)
    \/ Interrupt(NoField)

SpecBlank == Init /\ [][NextBlank]_vars

(***************************************************************************)
(* The initialisation specification: vi_init on each TV standard, with the *)
(* VI switched off or running at boot, called again later, with register   *)
(* writes and the vblank interrupt.                                        *)
(***************************************************************************)
InitAny == InitTv({"NTSC", "PAL", "MPAL"})

NextInit ==
    \/ InitAgain
    \/ WriteBegin
    \/ WriteEnd
    \/ \E w \in RegWrites : WriteMasked(w[1], w[2], w[3])
    \/ Interrupt(NoField)

SpecInit == InitAny /\ [][NextInit]_vars

(***************************************************************************)
(* The field specification: interlaced mode switched on and off again,     *)
(* with the vblank interrupt taken in either field.                        *)
(***************************************************************************)
NextField ==
    \/ WriteBegin
    \/ WriteEnd
    \/ \E w \in InterlaceWrites : WriteMasked(w[1], w[2], w[3])
    \/ \E interlaced \in BOOLEAN : SetInterlaced(interlaced)
    \/ Interrupt(AnyField)

SpecField == Init /\ [][NextField]_vars

(***************************************************************************)
(* Properties of the register transactions.                                *)
(***************************************************************************)
\* The mirror is interlaced: __vblank_interrupt corrects the fields.
Serrate(c) == And(c[VI_CTRL], VI_CTRL_SERRATE) # 0

\* The registers a call has made pending by the time it decides to flush:
\* those pending before it and those it writes itself.
PendingAtApply ==
    cfg_pending \cup
    (CASE op'.name = "vi_write_masked"   -> {op'.args[1]}
       [] op'.name = "vi_set_origin"     -> {VI_ORIGIN, VI_WIDTH, VI_CTRL}
       [] op'.name = "vi_set_interlaced" -> {VI_CTRL, VI_V_TOTAL}
       [] op'.name = "vi_blank"          -> IF op'.args[1] THEN {} ELSE {VI_H_VIDEO}
       [] OTHER                          -> {})

\* Hardware equals mirror for every register of regs after the step, the live
\* scanline counter aside, except H_VIDEO (zeroed) when a blank was requested
\* and ORIGIN / Y_SCALE / V_BURST when the mirror is interlaced.
WrittenToHardware(regs) ==
    \A reg \in regs :
        \/ reg = VI_V_CURRENT
        \/ reg = VI_H_VIDEO /\ pending_blank /\ hw'[reg] = 0
        \/ reg \in {VI_ORIGIN, VI_Y_SCALE, VI_V_BURST} /\ Serrate(cfg')
        \/ hw'[reg] = cfg'[reg]

\* C1: while a transaction stays open (depth above zero before and after a
\* step), no hardware register written in that transaction changes to the
\* value the transaction gave its mirror slot.
C1_TransactionInvisible ==
    [][ (cfg_refcount > 0 /\ cfg_refcount' > 0)
        => \A reg \in tx_regs' :
              hw'[reg] # hw[reg] => hw'[reg] # cfg'[reg] ]_vars

\* C2: a masked write whose value lies inside the mask sets the masked bits of
\* its mirror slot to value, keeps the other bits of the slot and every other
\* slot, leaves the slot pending unless the same call flushed it, and vi_read
\* returns the new value at once; vi_set_origin changes only the two depth
\* bits of the control slot (and the origin and width slots).
C2_MaskedWrite ==
    [][ /\ (op'.name = "vi_write_masked" /\ fault' = "none")
           => LET reg   == op'.args[1]
                  wmask == op'.args[2]
                  value == op'.args[3]
              IN  /\ And(cfg'[reg], wmask) = value
                  /\ And(cfg'[reg], Not32(wmask)) = And(cfg[reg], Not32(wmask))
                  /\ \A other \in Regs \ {reg} : cfg'[other] = cfg[other]
                  /\ (reg \in cfg_pending' \/ op'.vblank)
                  /\ And(vi_read([cfg |-> cfg'], reg), wmask) = value
        /\ (op'.name = "vi_set_origin" /\ fault' = "none")
           => /\ And(cfg'[VI_CTRL], VI_CTRL_TYPE) =
                    (IF op'.args[3] = 16 THEN VI_CTRL_TYPE_16_BPP
                     ELSE VI_CTRL_TYPE_32_BPP)
              /\ And(cfg'[VI_CTRL], Not32(VI_CTRL_TYPE)) =
                    And(cfg[VI_CTRL], Not32(VI_CTRL_TYPE))
              /\ \A other \in Regs \ {VI_CTRL, VI_ORIGIN, VI_WIDTH} :
                    cfg'[other] = cfg[other] ]_vars

\* C2 case: a masked write of the type field inside a transaction has changed
\* the mirror while the hardware still shows the 32 bpp buffer.
C2_Witness ==
    /\ op.name = "vi_write_masked"
    /\ op.args = <<VI_CTRL, VI_CTRL_TYPE, VI_CTRL_TYPE_BLANK>>
    /\ cfg_refcount > 0
    /\ VI_CTRL \in cfg_pending
    /\ cfg[VI_CTRL] = Or(VI_PIXEL_ADVANCE_DEFAULT, VI_AA_MODE_RESAMPLE)
    /\ And(hw[VI_CTRL], VI_CTRL_TYPE) = VI_CTRL_TYPE_32_BPP

\* C3: after vi_write_masked or vi_write_end returns with no transaction
\* open, the VI active and the scan position in the vblank window, nothing is
\* left pending.
C3_FlushInVblankWindow ==
    ( /\ op.name \in {"vi_write_masked", "vi_write_end"}
      /\ fault = "none"
      /\ cfg_refcount = 0
      /\ vi_is_active(hw)
      /\ InVblankWindow(hw) )
    => cfg_pending = {}

\* C4: with the hardware type field blank, a register write or vi_write_end
\* that returns at depth zero has run the flush: nothing is pending and every
\* slot that was pending is in the hardware.
C4_FlushWhenDisabled ==
    [][ ( /\ op'.name \in {"vi_write_masked", "vi_write_end", "vi_set_origin"}
          /\ fault' = "none"
          /\ cfg_refcount' = 0
          /\ ~vi_is_active(hw) )
        => /\ op'.vblank
           /\ cfg_pending' = {}
           /\ WrittenToHardware(PendingAtApply) ]_vars

\* C4 case: vi_write_end closed a transaction on disabled hardware and the
\* H_VIDEO value written in it is in the hardware register.
C4_Witness ==
    /\ op.name = "vi_write_end"
    /\ op.vblank
    /\ cfg_refcount = 0
    /\ cfg_pending = {}
    /\ hw[VI_H_VIDEO] = VI_H_VIDEO_SET(120, 736)
    /\ ~vi_is_active(hw)

\* C5: a run of __vblank_interrupt at depth zero leaves nothing pending and
\* has written every slot that was pending: hardware equals mirror for each,
\* apart from the scanline counter, H_VIDEO under a blank request and
\* ORIGIN / Y_SCALE / V_BURST under interlaced field correction.
C5_VblankApply ==
    [][ (op'.vblank /\ cfg_refcount' = 0 /\ fault' = "none")
        => /\ cfg_pending' = {}
           /\ WrittenToHardware(PendingAtApply) ]_vars

\* C5 case: the vblank interrupt fired on an interlaced display at depth zero
\* and applied a blank request and the field correction of Y_SCALE.
C5_Witness ==
    /\ op.name = "__vi_interrupt"
    /\ op.vblank
    /\ cfg_refcount = 0
    /\ cfg_pending = {}
    /\ Serrate(cfg)
    /\ hw[VI_CTRL] = cfg[VI_CTRL]
    /\ hw[VI_H_VIDEO] = 0 /\ cfg[VI_H_VIDEO] # 0
    /\ hw[VI_Y_SCALE] # cfg[VI_Y_SCALE]

\* C6: vi_write_begin adds one to the depth and vi_write_end takes one off;
\* vi_write_end at depth zero is fatal and leaves the depth alone, so the
\* depth is never negative; vi_write_end that leaves a depth above zero does
\* not flush.
C6_DepthBookkeeping ==
    [][ /\ cfg_refcount' >= 0
        /\ op'.name = "vi_write_begin" => cfg_refcount' = cfg_refcount + 1
        /\ op'.name = "vi_write_end"
           => IF cfg_refcount = 0
              THEN fault' # "none" /\ cfg_refcount' = 0 /\ hw' = hw
                   /\ cfg_pending' = cfg_pending
              ELSE /\ fault' = "none"
                   /\ cfg_refcount' = cfg_refcount - 1
                   /\ cfg_refcount' > 0
                      => ~op'.vblank /\ hw' = hw /\ cfg_pending' = cfg_pending
      ]_vars

\* C6 case: vi_write_end was called with no transaction open.
C6_Witness ==
    /\ op.name = "vi_write_end"
    /\ fault = "vi_write_end without matching begin"
    /\ cfg_refcount = 0

(***************************************************************************)
(* Properties of the line interrupts.                                      *)
(***************************************************************************)
\* The entries of a table, in slot order, up to the sentinel.
RECURSIVE Lines(_, _)
Lines(table, i) ==
    IF i \notin Slots \/ table[i].line = 0 THEN <<>>
    ELSE <<table[i].line>> \o Lines(table, i + 1)

StrictlyAscending(seq) ==
    \A i \in 1..(Len(seq) - 1) : seq[i] < seq[i + 1]

\* C7: when __vi_interrupt returns, the hardware VI_V_INTR holds the line of
\* the live entry under the cursor.
C7_TriggerFollowsCursor ==
    (op.name = "__vi_interrupt" /\ fault = "none")
    => hw[VI_V_INTR] = line_irqs[cur_line_irq].line

\* C8: in a frame that no request or deferred commit touched, the firings
\* run without a fault and, once the cursor is back on the head entry, they
\* have called the vblank entry and then every scheduled entry once, in
\* strictly ascending line order.
C8_FrameInOrder ==
    (op.name = "__vi_interrupt" /\ ~frame_edited)
    => /\ fault = "none"
       /\ cur_line_irq = 0
          => /\ frame = Lines(line_irqs, 0)
             /\ frame[1] = VI_V_CURRENT_VBLANK
             /\ StrictlyAscending(frame)

\* C9: while the cursor is not on the head entry, no step changes the live
\* entry under the cursor.
C9_MidFrameEntryStable ==
    [][ (cur_line_irq # 0 /\ cur_line_irq \in Slots)
        => line_irqs'[cur_line_irq] = line_irqs[cur_line_irq] ]_vars

\* C10: neither the shadow nor the live table holds two entries with the
\* same line.
C10_NoDuplicateLines ==
    \A i, j \in Slots :
        (i # j /\ new_line_irqs[i].line # 0 => new_line_irqs[i].line # new_line_irqs[j].line)
        /\ (i # j /\ line_irqs[i].line # 0 => line_irqs[i].line # line_irqs[j].line)

\* The shadow table a request starts from: the shadow if edits are pending,
\* else the snapshot of the live table the request takes first.
ShadowBefore == IF cfg_pending_lineirqs THEN new_line_irqs ELSE line_irqs

\* The entries of a table that are not sentinels, as a set.
Entries(table) == {table[i] : i \in {k \in Slots : table[k].line # 0}}

\* C11: a schedule request for a line not yet in the shadow table that
\* returns without a fatal error leaves a sentinel in the last slot and
\* keeps every entry the shadow held before it.
C11_ScheduleKeepsSentinel ==
    [][ ( /\ op'.name = "vi_set_line_interrupt"
          /\ op'.args[2] # "NULL"
          /\ fault' = "none"
          /\ \A i \in Slots : ShadowBefore[i].line # Or(op'.args[1], 1) )
        => /\ new_line_irqs'[MAX_LINE_IRQS - 1].line = 0
           /\ Entries(ShadowBefore) \subseteq Entries(new_line_irqs') ]_vars

\* A table as the sequence of its slots.
TableSeq(table) == [k \in 1 .. MAX_LINE_IRQS |-> table[k - 1]]

\* seq without its element at position k.
Without(seq, k) == SubSeq(seq, 1, k - 1) \o SubSeq(seq, k + 1, Len(seq))

\* C12: a cancel request is fatal when no shadow entry has the line (line | 1);
\* otherwise the shadow becomes what it was with one entry of that line taken
\* out, the later entries moved down in order and a sentinel in the last slot.
C12_CancelRemovesOne ==
    [][ (op'.name = "vi_set_line_interrupt" /\ op'.args[2] = "NULL")
        => LET line == Or(op'.args[1], 1)
               hit  == {k \in 1 .. MAX_LINE_IRQS : ShadowBefore[k - 1].line = line}
           IN  IF hit = {}
               THEN fault' = "Line interrupt not found"
               ELSE /\ fault' = "none"
                    /\ \E k \in hit :
                          TableSeq(new_line_irqs') =
                             Without(TableSeq(ShadowBefore), k) \o <<NullEntry>>
      ]_vars

\* C12 case: an entry scheduled for line 101 and not yet committed to the
\* live table was cancelled, and the entry of line 201 moved down to its slot.
C12_Witness ==
    /\ op.name = "vi_set_line_interrupt"
    /\ op.args = <<100, "NULL">>
    /\ fault = "none"
    /\ new_line_irqs[1].line = 201
    /\ new_line_irqs[MAX_LINE_IRQS - 1] = NullEntry
    /\ \A i \in Slots : line_irqs[i].line # 101

\* C13: a schedule or cancel request leaves the live table, the cursor, the
\* hardware and the register mirror alone and sets the pending-edits flag;
\* the shadow it leaves is the live table (first request since a commit) or
\* the previous shadow (later requests) with the one edit applied: unchanged
\* on a fatal error, with the new entry put in and the last slot dropped on a
\* schedule.
C13_RequestEditsShadowOnly ==
    [][ op'.name = "vi_set_line_interrupt"
        => /\ line_irqs' = line_irqs
           /\ cur_line_irq' = cur_line_irq
           /\ hw' = hw
           /\ cfg' = cfg /\ cfg_pending' = cfg_pending
           /\ cfg_pending_lineirqs'
           /\ fault' # "none" => new_line_irqs' = ShadowBefore
           /\ (fault' = "none" /\ op'.args[2] # "NULL")
              => \E k \in 1 .. MAX_LINE_IRQS :
                    /\ new_line_irqs'[k - 1] =
                          [line |-> Or(op'.args[1], 1), handler |-> op'.args[2]]
                    /\ Without(TableSeq(new_line_irqs'), k) =
                          SubSeq(TableSeq(ShadowBefore), 1, MAX_LINE_IRQS - 1)
      ]_vars

\* C13 case: a schedule request made in the middle of a frame, with the
\* cursor on the entry of line 201: the shadow has the new entry, the live
\* table and the trigger register are as before.
C13_Witness ==
    /\ op.name = "vi_set_line_interrupt"
    /\ op.args = <<100, "cb">>
    /\ fault = "none"
    /\ cfg_pending_lineirqs
    /\ cur_line_irq = 1
    /\ line_irqs[1].line = 201
    /\ new_line_irqs[1].line = 101
    /\ hw[VI_V_INTR] = 201

(***************************************************************************)
(* Properties of the output window.                                        *)
(***************************************************************************)
\* Every corner of the rectangle o is inside the bounds b.
WithinBounds(o, b) ==
    /\ b[1] <= o[1] /\ o[1] <= b[3]
    /\ b[1] <= o[3] /\ o[3] <= b[3]
    /\ b[2] <= o[2] /\ o[2] <= b[4]
    /\ b[2] <= o[4] /\ o[4] <= b[4]

\* The rectangle r and the bounds b share no point.
Disjoint(r, b) == r[3] < b[1] \/ r[1] > b[3] \/ r[4] < b[2] \/ r[2] > b[4]

\* C14: after vi_set_output the window read back by vi_get_output is the
\* zero rectangle or lies within the rectangle of vi_get_output_bounds.
C14_OutputWithinBounds ==
    op.name = "vi_set_output"
    => \/ vi_get_output(State) = <<0, 0, 0, 0>>
       \/ WithinBounds(vi_get_output(State), vi_get_output_bounds(State))

\* The request of the vi_set_output call that led to this state.
Requested == <<op.args[1], op.args[2], op.args[3], op.args[4]>>

\* C15: after vi_set_output for a rectangle (x0 <= x1, y0 <= y1) that shares
\* no point with the legal bounds, no fatal error was raised, the window read
\* back is (0,0,0,0) and the mirror H_VIDEO and V_VIDEO slots are 0.
C15_OutOfBoundsIsZero ==
    ( /\ op.name = "vi_set_output"
      /\ Requested[1] <= Requested[3] /\ Requested[2] <= Requested[4]
      /\ Disjoint(Requested, vi_get_output_bounds(State)) )
    => /\ fault = "none"
       /\ vi_get_output(State) = <<0, 0, 0, 0>>
       /\ vi_read(State, VI_H_VIDEO) = 0
       /\ vi_read(State, VI_V_VIDEO) = 0

\* C15 case: a request whose x1 = 50 is below the legal minimum x = 96, with
\* legal vertical extent, has zeroed the window.
C15_Witness ==
    /\ op.name = "vi_set_output"
    /\ op.args = <<0, 47, 50, 503>>
    /\ vi_get_output_bounds(State)[1] = 96
    /\ fault = "none"
    /\ vi_get_output(State) = <<0, 0, 0, 0>>

\* C16: after vi_set_output for a rectangle (x0 <= x1, y0 <= y1) that meets
\* the legal bounds without lying within them, the window read back has the
\* requested width x1 - x0 and the requested height y1 - y0.
C16_PartialOverlapKeepsSize ==
    ( /\ op.name = "vi_set_output"
      /\ fault = "none"
      /\ Requested[1] <= Requested[3] /\ Requested[2] <= Requested[4]
      /\ ~Disjoint(Requested, vi_get_output_bounds(State))
      /\ ~WithinBounds(Requested, vi_get_output_bounds(State)) )
    => /\ vi_get_output(State)[3] - vi_get_output(State)[1] =
             Requested[3] - Requested[1]
       /\ vi_get_output(State)[4] - vi_get_output(State)[2] =
             Requested[4] - Requested[2]

\* C17: vi_set_borders called with the borders vi_get_borders returns leaves
\* the mirror H_VIDEO and V_VIDEO slots as they were.
C17_BordersRoundTrip ==
    [][ (op'.name = "vi_set_borders" /\ op'.args[1] = vi_get_borders(State))
        => /\ cfg'[VI_H_VIDEO] = cfg[VI_H_VIDEO]
           /\ cfg'[VI_V_VIDEO] = cfg[VI_V_VIDEO] ]_vars

\* The default rectangle of the active preset with the borders b applied.
Bordered(b) ==
    LET d == vi_presets[tv_type].display
    IN  << d.x0 + b.left, d.y0 + b.up,
           (d.x0 + d.width) - b.right, (d.y0 + d.height) - b.down >>

\* C18: after vi_set_borders(b) with the bordered default rectangle inside
\* the legal bounds, the window is that rectangle and vi_get_borders returns
\* b; on NTSC the borders {12,12,12,12} give (120,47)-(736,503); the default
\* rectangle left by vi_init has all-zero borders.
C18_BordersSetAndGet ==
    /\ op.name = "vi_set_borders"
       => /\ WithinBounds(Bordered(op.args[1]), vi_get_output_bounds(State))
             => /\ vi_get_output(State) = Bordered(op.args[1])
                /\ vi_get_borders(State) = op.args[1]
          /\ (tv_type = "NTSC" /\ op.args[1] = Border(12, 12, 12, 12))
             => vi_get_output(State) = <<120, 47, 736, 503>>
    /\ op.name = "vi_init" => vi_get_borders(State) = Border(0, 0, 0, 0)

\* C18 case: vi_set_borders was called with 12 dots on every side on NTSC.
C18_Witness ==
    /\ op.name = "vi_set_borders"
    /\ op.args[1] = Border(12, 12, 12, 12)
    /\ tv_type = "NTSC"
    /\ WithinBounds(Bordered(op.args[1]), vi_get_output_bounds(State))
    /\ vi_get_output(State) = <<120, 47, 736, 503>>

\* v brought into lo .. hi.
Clamp(v, lo, hi) == IF v < lo THEN lo ELSE IF v > hi THEN hi ELSE v

\* C19: vi_move_output(x, y) on a window that lies within the legal bounds
\* leaves a window of the same width and height whose top-left corner is
\* (x, y), each coordinate clamped so that the whole window fits the bounds.
C19_MoveSetsStart ==
    [][ ( /\ op'.name = "vi_move_output"
          /\ fault' = "none"
          /\ vi_get_output(State)[1] <= vi_get_output(State)[3]
          /\ vi_get_output(State)[2] <= vi_get_output(State)[4]
          /\ WithinBounds(vi_get_output(State), vi_get_output_bounds(State)) )
        => LET o == vi_get_output(State)
               b == vi_get_output_bounds(State)
               w == o[3] - o[1]
               h == o[4] - o[2]
               x == Clamp(op'.args[1], b[1], b[3] - w)
               y == Clamp(op'.args[2], b[2], b[4] - h)
           IN  vi_get_output([cfg |-> cfg']) = <<x, y, x + w, y + h>> ]_vars

(***************************************************************************)
(* Properties of the stabilized registers.                                 *)
(***************************************************************************)
\* C20: every run of __vblank_interrupt leaves hardware equal to mirror for
\* each stabilized register, pending or not and whatever the transaction
\* depth (H_VIDEO is zeroed instead when a blank was requested); cfg_raster
\* changes in no step but vi_stabilize, which adds or removes exactly the
\* named register.
C20_StabilizedRewritten ==
    [][ /\ (op'.vblank /\ fault' = "none") => WrittenToHardware(cfg_raster)
        /\ op'.name # "vi_stabilize" => cfg_raster' = cfg_raster
        /\ op'.name = "vi_stabilize"
           => cfg_raster' = IF op'.args[2] THEN cfg_raster \cup {op'.args[1]}
                            ELSE cfg_raster \ {op'.args[1]} ]_vars

\* C20 case: the vblank interrupt ran inside an open transaction with
\* H_VIDEO stabilized and nothing pending, and hardware H_VIDEO holds the
\* mirror value, not the 0 a blank request had put there.
C20_Witness ==
    /\ op.name = "__vi_interrupt"
    /\ op.vblank
    /\ cfg_refcount > 0
    /\ cfg_pending = {}
    /\ VI_H_VIDEO \in cfg_raster
    /\ hw[VI_H_VIDEO] = cfg[VI_H_VIDEO]
    /\ cfg[VI_H_VIDEO] # 0

(***************************************************************************)
(* Properties of vi_show.                                                  *)
(***************************************************************************)
\* The registers vi_show writes for a surface.
ShowRegs == {VI_ORIGIN, VI_WIDTH, VI_CTRL, VI_X_SCALE, VI_Y_SCALE}

\* C21: vi_show(NULL) zeroes the mirror ORIGIN and WIDTH and sets the type
\* field of the mirror control slot to blank, keeping its other bits, every
\* other slot and the depth, in one transaction: the hardware either gets
\* all three at the end of the call or none; a flush at depth zero of a blank
\* mirror control slot leaves the hardware type blank (VI off); vi_show of a
\* surface at depth zero on switched-off hardware applies all five of its
\* registers in the one flush of its closing vi_write_end, none of its
\* earlier calls touching the hardware, and leaves the VI active.
C21_ShowNullBlanks ==
    [][ /\ (op'.name = "vi_show" /\ op'.args[1] = NoSurface /\ fault' = "none")
           => /\ cfg'[VI_ORIGIN] = 0
              /\ cfg'[VI_WIDTH] = 0
              /\ And(cfg'[VI_CTRL], VI_CTRL_TYPE) = VI_CTRL_TYPE_BLANK
              /\ And(cfg'[VI_CTRL], Not32(VI_CTRL_TYPE)) =
                    And(cfg[VI_CTRL], Not32(VI_CTRL_TYPE))
              /\ \A other \in Regs \ {VI_ORIGIN, VI_WIDTH, VI_CTRL} :
                    cfg'[other] = cfg[other]
              /\ cfg_refcount' = cfg_refcount
              /\ IF op'.vblank
                 THEN /\ cfg_pending' = {}
                      /\ \A reg \in {VI_ORIGIN, VI_WIDTH, VI_CTRL} :
                            hw'[reg] = cfg'[reg]
                 ELSE /\ hw' = hw
                      /\ {VI_ORIGIN, VI_WIDTH, VI_CTRL} \subseteq cfg_pending'
        /\ ( /\ op'.vblank /\ cfg_refcount' = 0 /\ fault' = "none"
             /\ VI_CTRL \in cfg_pending \/ op'.name = "vi_show"
             /\ And(cfg'[VI_CTRL], VI_CTRL_TYPE) = VI_CTRL_TYPE_BLANK )
           => ~vi_is_active(hw')
        /\ ( /\ op'.name = "vi_show" /\ op'.args[1] # NoSurface
             /\ fault' = "none" )
           => IF cfg_refcount = 0 /\ ~vi_is_active(hw)
              THEN /\ op'.vblank
                   /\ cfg_pending' = {}
                   /\ \A reg \in ShowRegs : hw'[reg] = cfg'[reg]
                   /\ hw'[VI_ORIGIN] = op'.args[1].buffer
                   /\ vi_is_active(hw')
                   /\ \A n \in 0 .. 4 :
                         /\ vi_show_upto(State, op'.args[1], n, 0).hw = hw
                         /\ ~vi_show_upto(State, op'.args[1], n, 0).vblank_ran
              ELSE /\ ~op'.vblank
                   /\ hw' = hw
                   /\ ShowRegs \subseteq cfg_pending' ]_vars

\* C21 case: the VI had been running (its interrupt fired), vi_show(NULL)
\* switched it off, and vi_show of the 320x240 surface has switched it on
\* again with origin, width, type and scale factors in the hardware.
C21_Witness ==
    /\ op.name = "vi_show"
    /\ op.args[1] # NoSurface
    /\ op.args[1].bpp = 16
    /\ op.vblank
    /\ frame # <<>>
    /\ cfg_pending = {}
    /\ And(hw[VI_CTRL], VI_CTRL_TYPE) = VI_CTRL_TYPE_16_BPP
    /\ hw[VI_ORIGIN] = 1048576
    /\ hw[VI_WIDTH] = 320
    /\ hw[VI_X_SCALE] = 512
    /\ hw[VI_Y_SCALE] = 1024

(***************************************************************************)
(* Properties of the assertions.                                           *)
(***************************************************************************)
\* The step left the mirror, the pending set, the depth and the hardware as
\* they were.
Untouched ==
    /\ cfg' = cfg
    /\ cfg_pending' = cfg_pending
    /\ cfg_refcount' = cfg_refcount
    /\ hw' = hw

\* C24: vi_write_masked with a register index outside 0..13 or with value
\* bits outside the mask, and vi_set_origin with a buffer not 8-byte aligned
\* or a bit depth other than 16 and 32, stop with a fatal assertion and leave
\* the mirror, the pending set, the depth and the hardware untouched.
C24_AssertBeforeWrite ==
    [][ /\ ( /\ op'.name = "vi_write_masked"
             /\ \/ op'.args[1] \notin Regs
                \/ And(op'.args[3], Not32(op'.args[2])) # 0 )
           => fault' # "none" /\ Untouched
        /\ ( /\ op'.name = "vi_set_origin"
             /\ \/ op'.args[1] % 8 # 0
                \/ op'.args[3] \notin {16, 32} )
           => fault' # "none" /\ Untouched ]_vars

\* C24 case: vi_set_origin was called with a misaligned buffer inside an
\* open transaction with writes pending, and stopped on its assertion.
C24_Witness ==
    /\ op.name = "vi_set_origin"
    /\ op.args[1] % 8 # 0
    /\ fault = "Invalid VI buffer alignment"
    /\ cfg_refcount > 0
    /\ VI_ORIGIN \in cfg_pending

(***************************************************************************)
(* Properties of vi_wait_vblank.                                           *)
(***************************************************************************)
\* C22: a call of vi_wait_vblank made while the hardware type field is
\* blank (VI off: no scan, no interrupt) returns at once, an open
\* transaction that enables the VI notwithstanding; a call that waits
\* returns only on reading the scanline of the start of vblank.
C22_WaitReturnsWhenOff ==
    [][ /\ (op'.name = "vi_wait_vblank" /\ ~vi_is_active(hw))
           => waiting' = "none"
        /\ (waiting # "none" /\ waiting' = "none")
           => vi_get_scanline(hw) = VI_V_CURRENT_VBLANK ]_vars

(***************************************************************************)
(* Liveness of the register writes.                                        *)
(***************************************************************************)
\* C23: under the fairness of SpecLive (transactions get closed, the VI
\* interrupt keeps firing), a register with a pending write is eventually
\* not pending any more, unless the program has stopped on a fatal error.
C23_WritesEventuallyFlushed ==
    \A reg \in {VI_CTRL, VI_H_VIDEO} :
        (reg \in cfg_pending) ~> (reg \notin cfg_pending \/ fault # "none")

(***************************************************************************)
(* Properties of the interrupt masking.                                    *)
(***************************************************************************)
\* The foreground has loaded v for a read-modify-write and not yet stored it.
Between(v) ==
    /\ fg.steps # <<>>
    /\ Head(fg.steps) = <<"store", v>>

MaskedState == {"cfg", "cfg_pending", "new_line_irqs"}

C26_VblankEntryFirst ==
    line_irqs[0] =
        [line |-> VI_V_CURRENT_VBLANK, handler |-> "__vblank_interrupt"]

\* A table is a run of entries with non-zero lines in ascending order
\* followed by sentinels, at least one of them.
WellFormed(table) ==
    \E n \in 0 .. (MAX_LINE_IRQS - 1) :
        /\ \A i \in Slots : i < n => table[i].line # 0
        /\ \A i \in Slots : i >= n => table[i].line = 0
        /\ \A i, j \in Slots : (i < j /\ j < n) => table[i].line <= table[j].line

\* C27: the live table and the shadow table (once a request has filled it)
\* are well formed, so the cursor meets a sentinel within the table.
C27_TablesWellFormed ==
    /\ WellFormed(line_irqs)
    /\ cfg_pending_lineirqs => WellFormed(new_line_irqs)


(***************************************************************************)
(* Properties of the pending mask.                                         *)
(***************************************************************************)
\* The registers the run of __vblank_interrupt made in this step stores from
\* the mirror: the stabilized ones, and the pending ones at depth zero.
VblankWrites ==
    IF PendingAtApply # {} /\ cfg_refcount' = 0
    THEN cfg_raster \cup PendingAtApply
    ELSE cfg_raster

\* A pending bit is cleared only by a run of __vblank_interrupt that stores
\* that register from the mirror.
ClearedOnlyWhenWritten ==
    \A reg \in Regs :
        (reg \in cfg_pending /\ reg \notin cfg_pending')
        => /\ op'.vblank
           /\ reg \in VblankWrites
           /\ WrittenToHardware({reg})

\* C28: a pending bit is cleared only in a step that writes that slot's
\* mirror value to hardware, and every slot a run of __vblank_interrupt
\* writes to hardware has its pending bit clear afterwards, stabilized slots
\* and open transactions included.
C28_PendingClearedWhenWritten ==
    [][ /\ ClearedOnlyWhenWritten
        /\ (op'.vblank /\ fault' = "none")
           => \A reg \in VblankWrites : reg \notin cfg_pending' ]_vars


\* The registers the vblank handler adjusts outside the mirror in the current
\* state: the trigger line and the scanline counter always, H_VIDEO while
\* the hardware window is blanked (zero), and ORIGIN / Y_SCALE / V_BURST
\* while the mirror or the hardware control word is interlaced.
HandlerAdjusted ==
    {VI_V_INTR, VI_V_CURRENT}
    \cup (IF hw[VI_H_VIDEO] = 0 THEN {VI_H_VIDEO} ELSE {})
    \cup (IF Serrate(cfg) \/ Serrate(hw)
          THEN {VI_ORIGIN, VI_Y_SCALE, VI_V_BURST} ELSE {})

\* C29: in every state after vi_init, a register the handler does not adjust
\* directly and whose pending bit is clear holds its mirror value in
\* hardware.
C29_ClearBitMeansLatched ==
    \A reg \in Regs \ HandlerAdjusted :
        reg \notin cfg_pending => hw[reg] = cfg[reg]


(***************************************************************************)
(* Properties of the firings.                                              *)
(***************************************************************************)
\* C30: every firing of the VI interrupt calls the live-table entry whose
\* line the hardware VI_V_INTR held when it fired, whatever requests came in
\* between; and when a firing brings the cursor back to the head entry, the
\* firings of that frame have called exactly the entries of the live table,
\* each once and in table order.
C30_FiringCallsTriggerEntry ==
    [][ op'.name = "__vi_interrupt"
        => /\ op'.called.line = hw[VI_V_INTR]
           /\ \E i \in Slots : line_irqs'[i] = op'.called
           /\ cur_line_irq' = 0 => frame' = Lines(line_irqs', 0) ]_vars


(***************************************************************************)
(* Properties of the cursor.                                               *)
(***************************************************************************)
\* C31: in every state after vi_init the cursor is a slot of the live table
\* whose line is non-zero and whose handler is not NULL, also right after a
\* commit of the shadow table, and the handler has neither called a NULL
\* handler nor moved the cursor past the table.
C31_CursorOnLiveEntry ==
    /\ cur_line_irq \in Slots
    /\ line_irqs[cur_line_irq].line # 0
    /\ line_irqs[cur_line_irq].handler # "NULL"
    /\ fault \notin {"call of a null handler", "cur_line_irq outside line_irqs"}


(***************************************************************************)
(* Properties of the commit of the shadow table.  The requests are read as *)
(* edits of a list of entries of any length, kept in ascending line order. *)
(***************************************************************************)
\* The entries of a table from slot i up to the first sentinel, as a list.
RECURSIVE EntriesFrom(_, _)
EntriesFrom(table, i) ==
    IF i \notin Slots \/ table[i].line = 0 THEN <<>>
    ELSE <<table[i]>> \o EntriesFrom(table, i + 1)

\* The list with an entry for line | 1 put after the entries of lines up to
\* it.
Scheduled(seq, line, handler) ==
    LET l == Or(line, 1)
        n == Cardinality({k \in 1 .. Len(seq) :
                             \A m \in 1 .. k : seq[m].line <= l})
    IN  SubSeq(seq, 1, n) \o <<[line |-> l, handler |-> handler]>>
            \o SubSeq(seq, n + 1, Len(seq))

\* The list without its first entry of line | 1.
Cancelled(seq, line) ==
    LET hit == {k \in 1 .. Len(seq) : seq[k].line = Or(line, 1)}
    IN  IF hit = {} THEN seq
        ELSE Without(seq, CHOOSE k \in hit : \A m \in hit : k <= m)

\* The list after the requests rs, applied in order.
RECURSIVE AfterRequests(_, _)
AfterRequests(seq, rs) ==
    IF rs = <<>> THEN seq
    ELSE AfterRequests(IF Head(rs)[2] # "NULL"
                       THEN Scheduled(seq, Head(rs)[1], Head(rs)[2])
                       ELSE Cancelled(seq, Head(rs)[1]),
                       Tail(rs))

\* C32: the live table changes only in a run of __vi_interrupt entered at
\* depth zero; a run entered at depth zero with edits pending leaves as live
\* table the previous live table with every request since the previous
\* commit applied once, in request order, and clears the pending-edits flag.
C32_CommitAppliesRequests ==
    [][ /\ line_irqs' # line_irqs
           => (op'.name = "__vi_interrupt" /\ cfg_refcount = 0)
        /\ (op'.name = "__vi_interrupt" /\ cfg_pending_lineirqs
              /\ cfg_refcount = 0)
           => /\ EntriesFrom(line_irqs', 0) =
                    AfterRequests(EntriesFrom(line_irqs, 0), reqs)
              /\ ~cfg_pending_lineirqs' ]_vars


(***************************************************************************)
(* Properties of requests and register writes made in one transaction.     *)
(***************************************************************************)
\* C33: the line-table edit and the window registers that eia608_start or
\* eia608_stop changed in one transaction take effect in the same step: a
\* call that flushes its registers synchronously leaves no table edit
\* pending, and a run of __vi_interrupt entered with both pending commits
\* the table exactly when it writes the window registers to hardware.
C33_EditAndWritesTogether ==
    [][ /\ (op'.name \in {"eia608_start", "eia608_stop"} /\ op'.vblank)
           => ~cfg_pending_lineirqs'
        /\ (op'.name = "__vi_interrupt" /\ cfg_pending_lineirqs
              /\ VI_V_VIDEO \in cfg_pending)
           => (cfg_pending_lineirqs' <=> VI_V_VIDEO \in cfg_pending') ]_vars


(***************************************************************************)
(* Properties of the blank request.                                        *)
(***************************************************************************)
\* C34: vi_blank(true) only sets the blank request; the next run of
\* __vblank_interrupt leaves hardware H_VIDEO at 0, whatever it flushed, and
\* clears the request, and neither of the two changes the mirror or sets a
\* pending bit; a run without a request leaves in hardware H_VIDEO what was
\* there or the mirror value; the request is set by vi_blank(true) alone.
C34_BlankOnce ==
    [][ /\ (op'.name = "vi_blank" /\ op'.args[1])
           => /\ pending_blank'
              /\ cfg' = cfg /\ cfg_pending' = cfg_pending /\ hw' = hw
        /\ (op'.vblank /\ pending_blank)
           => /\ hw'[VI_H_VIDEO] = 0
              /\ ~pending_blank'
              /\ cfg_pending' \subseteq PendingAtApply
              /\ op'.name = "__vi_interrupt" => cfg' = cfg
        /\ (op'.vblank /\ ~pending_blank)
           => hw'[VI_H_VIDEO] \in {hw[VI_H_VIDEO], cfg'[VI_H_VIDEO]}
        /\ (pending_blank' /\ ~pending_blank)
           => (op'.name = "vi_blank" /\ op'.args[1]) ]_vars

\* C34 case: the vblank interrupt has applied a blank request: hardware
\* H_VIDEO is 0 while the mirror keeps the window, nothing is pending and
\* the request is cleared.
C34_Witness ==
    /\ op.name = "__vi_interrupt"
    /\ op.vblank
    /\ hw[VI_H_VIDEO] = 0
    /\ cfg[VI_H_VIDEO] # 0
    /\ cfg_pending = {}
    /\ ~pending_blank


\* C35: the flush that follows vi_blank(false) leaves hardware H_VIDEO equal
\* to the mirror H_VIDEO, whatever vi_blank calls came before it: the flush
\* vi_blank(false) makes itself while the VI is off, or else the run of the
\* vblank interrupt at depth zero that comes right after the call.
C35_UnblankShows ==
    [][ /\ (op'.name = "vi_blank" /\ ~op'.args[1] /\ op'.vblank)
           => hw'[VI_H_VIDEO] = cfg'[VI_H_VIDEO]
        /\ (op.name = "vi_blank" /\ ~op.args[1] /\ ~op.vblank
              /\ op'.name = "__vi_interrupt" /\ op'.vblank /\ cfg_refcount = 0)
           => hw'[VI_H_VIDEO] = cfg'[VI_H_VIDEO] ]_vars


(***************************************************************************)
(* Properties of the field correction.                                     *)
(***************************************************************************)
\* C36: a run of __vblank_interrupt changes no mirror slot (the mirror is the
\* same after the VI interrupt, and after a vi_write_end that flushes); with
\* the mirror interlaced it leaves in the hardware ORIGIN and Y_SCALE the
\* mirror values, plus the cached deltas in field 0.
C36_ApplyKeepsMirror ==
    [][ /\ op'.name \in {"__vi_interrupt", "vi_write_end"} => cfg' = cfg
        /\ (op'.vblank /\ fault' = "none" /\ Serrate(cfg'))
           => LET corrected == hw'[VI_V_CURRENT] % 2 = 0
              IN  /\ hw'[VI_ORIGIN] =
                        IF corrected
                        THEN Add32(cfg'[VI_ORIGIN], interlacing_parms'[1])
                        ELSE cfg'[VI_ORIGIN]
                  /\ hw'[VI_Y_SCALE] =
                        IF corrected
                        THEN Add32(cfg'[VI_Y_SCALE], interlacing_parms'[2])
                        ELSE cfg'[VI_Y_SCALE] ]_vars

\* C36 case: the vblank interrupt ran in field 0 of interlaced mode with a
\* non-zero Y_SCALE delta: hardware Y_SCALE differs from the mirror slot.
C36_Witness ==
    /\ op.name = "__vi_interrupt"
    /\ op.vblank
    /\ Serrate(cfg)
    /\ hw[VI_V_CURRENT] % 2 = 0
    /\ interlacing_parms[2] # 0
    /\ hw[VI_Y_SCALE] # cfg[VI_Y_SCALE]


(***************************************************************************)
(* Properties of the PAL-M workaround.                                     *)
(***************************************************************************)
\* The two patterns of VI_V_BURST.
BurstPatterns == {VI_V_BURST_SET(14, 516), VI_V_BURST_SET(11, 514)}

\* C37: on PAL-M with the mirror interlaced, every run of __vblank_interrupt
\* leaves the hardware V_BURST on one of the two patterns and not on the one
\* it had before the run; on another standard, or with the mirror
\* progressive, a run leaves in V_BURST what was there or the mirror value.
C37_BurstAlternates ==
    [][ (op'.vblank /\ fault' = "none")
        => IF tv_type = "MPAL" /\ Serrate(cfg')
           THEN /\ hw'[VI_V_BURST] \in BurstPatterns
                /\ hw'[VI_V_BURST] # hw[VI_V_BURST]
           ELSE hw'[VI_V_BURST] \in {hw[VI_V_BURST], cfg'[VI_V_BURST]} ]_vars


(***************************************************************************)
(* Properties of vi_init.                                                  *)
(***************************************************************************)
\* The mirror vi_init builds from the preset of the TV standard.
PresetMirror(tv) ==
    LET p == vi_presets[tv]
    IN  [i \in Regs |->
           CASE i = VI_H_TOTAL      -> p.vi_h_total
             [] i = VI_H_TOTAL_LEAP -> p.vi_h_total_leap
             [] i = VI_V_TOTAL      -> p.vi_v_total
             [] i = VI_BURST        -> p.vi_burst
             [] i = VI_V_BURST      -> p.vi_v_burst
             [] i = VI_H_VIDEO      ->
                  VI_H_VIDEO_SET(p.display.x0, p.display.x0 + p.display.width)
             [] i = VI_V_VIDEO      ->
                  VI_V_VIDEO_SET(p.display.y0, p.display.y0 + p.display.height)
             [] i = VI_CTRL         ->
                  Or(VI_PIXEL_ADVANCE_DEFAULT, VI_AA_MODE_RESAMPLE)
             [] OTHER               -> 0]

\* The state in which vi_init returns: the mirror of the preset with the type
\* field blank, every register pending (or, with the VI off, already written
\* by the flush of its vi_write_end), the vblank entry alone in the live
\* table with the cursor on it, the trigger on the vblank line, depth zero.
InitPost ==
    /\ cfg = PresetMirror(tv_type)
    /\ And(cfg[VI_CTRL], VI_CTRL_TYPE) = VI_CTRL_TYPE_BLANK
    /\ \/ cfg_pending = Regs
       \/ /\ cfg_pending = {}
          /\ op.vblank
          /\ \A reg \in Regs \ {VI_V_INTR, VI_V_CURRENT} : hw[reg] = cfg[reg]
    /\ cfg_raster = {}
    /\ cfg_refcount = 0
    /\ ~pending_blank
    /\ line_irqs = [EmptyTable EXCEPT ![0] =
                      [line |-> VI_V_CURRENT_VBLANK,
                       handler |-> "__vblank_interrupt"]]
    /\ cur_line_irq = 0
    /\ hw[VI_V_INTR] = VI_V_CURRENT_VBLANK
    /\ fault = "none"

\* C38: vi_init returns in the state InitPost; the first flush at depth zero
\* of a state with all registers pending writes every register; a later call
\* of vi_init changes nothing of the driver's state.
C38_InitOnce ==
    /\ InitPost
    /\ [][ /\ (cfg_pending = Regs /\ op'.vblank /\ cfg_refcount' = 0
                 /\ fault' = "none")
              => (cfg_pending' = {} /\ WrittenToHardware(Regs))
           /\ op'.name = "vi_init"
              => UNCHANGED <<cfg, hw, cfg_pending, cfg_raster,
                             cfg_pending_lineirqs, cfg_refcount, pending_blank,
                             cur_line_irq, interlacing_parms, line_irqs,
                             new_line_irqs, tv_type, fault>> ]_vars

\* C38 case: vi_init was called again inside an open transaction, after a
\* write to H_VIDEO and with the hardware programmed by an earlier flush.
C38_Witness ==
    /\ op.name = "vi_init"
    /\ cfg_refcount > 0
    /\ VI_H_VIDEO \in cfg_pending
    /\ cfg[VI_H_VIDEO] = VI_H_VIDEO_SET(120, 736)
    /\ hw[VI_H_TOTAL] = cfg[VI_H_TOTAL]

(***************************************************************************)
(* C39: every public configuration operation (vi_write_masked, vi_show,    *)
(* vi_set_origin, vi_set_interlaced, vi_set_output, vi_set_borders,        *)
(* vi_move_output, vi_scroll_output, vi_set_line_interrupt) that returns   *)
(* normally returns with the transaction depth and the interrupt-disable   *)
(* nesting level equal to their values at entry.                           *)
(***************************************************************************)
ConfigOps ==
    { "vi_write_masked", "vi_show", "vi_set_origin", "vi_set_interlaced",
      "vi_set_output", "vi_set_borders", "vi_move_output", "vi_scroll_output",
      "vi_set_line_interrupt" }

C39_OperationsBalanced ==
    (fg.steps # <<>> /\ Head(fg.steps)[1] = "return" /\ fg.fn \in ConfigOps)
        => /\ cfg_refcount = Head(fg.steps)[2]
           /\ fg.irq = Head(fg.steps)[3]

\* vi_show of a surface returns inside a caller's transaction, its writes
\* still pending.
C39_Witness ==
    /\ fg.steps # <<>>
    /\ Head(fg.steps)[1] = "return"
    /\ fg.fn = "vi_show"
    /\ Head(fg.steps)[2] > 0
    /\ cfg[VI_X_SCALE] # 0
    /\ VI_X_SCALE \in cfg_pending

(***************************************************************************)
(* C40: after the output window has degraded to the zero-area rectangle    *)
(* (0,0,0,0), or been made narrower than a quarter of the framebuffer      *)
(* width, vi_show of a valid 16- or 32-bit surface still completes         *)
(* normally: the scale computation divides by no zero and produces no      *)
(* value with bits outside the mask 0xFFF.                                 *)
(***************************************************************************)
\* The divisors of the two scale computations under the mirror's window.
ScaleDivisors ==
    LET o == __get_output(State)
    IN  <<o[3] - o[1], (o[4] - o[2]) \div 2>>

C40_ShowOverDegenerateWindow ==
    [][ ( /\ op'.name = "vi_show"
          /\ op'.args[1] \in ValidSurfaces
          /\ \/ __get_output(State) = <<0, 0, 0, 0>>
             \/ 4 * ScaleDivisors[1] < op'.args[1].width )
        => /\ fault' = "none"
           /\ ScaleDivisors[1] # 0
           /\ ScaleDivisors[2] # 0 ]_vars

====
